---------------------------- MODULE Spec2Model ----------------------------
(***************************************************************************)
(* A model of the extraction / validation / merge core of the NYC transit  *)
(* + weather ETL pipeline (src/etl pipeline/*.py).                         *)
(*                                                                         *)
(*   SpecExtract    DataExtractor: fetch_with_retry, fetch_ridership_data, *)
(*                  fetch_weather_data (data_extraction.py)                *)
(*   SpecTransform  DataTransformer: validate_data_quality and             *)
(*                  transform_and_merge (data_transformation.py)           *)
(*   SpecScore      the quality-score arithmetic of validate_data_quality  *)
(*                  on row counts drawn from a bounded range               *)
(*                                                                         *)
(* Time is counted in ticks: TicksPerDay ticks per calendar day, tick 0 of *)
(* a day being 00:00:00 and the last tick of a day being 23:59:59.  Day 0  *)
(* is start_date.                                                          *)
(***************************************************************************)
EXTENDS Integers, Sequences, FiniteSets, TLC

\* ------------------------------------------------------------------------
\* Bounds of the model
\* ------------------------------------------------------------------------
TicksPerDay == 3
MaxDays == 15
MaxRecords == 16
MaxBatch == 7
MaxRetriesArg == 4
MaxDelayArg == 2
MaxRows == 3
MaxSmallTable == 40
LargeTable == 2009

\* ------------------------------------------------------------------------
\* Program constants
\* ------------------------------------------------------------------------
DefaultMaxRetries == 3
DefaultRetryDelay == 2
WindowDays == 7
DefaultRecordsPerDay == 50000

\* pandas' missing values: NaT for a datetime, NaN for a number
NaT == -1
NaN == -99999

Errors == {"Timeout", "HTTPError"}

Min(a, b) == IF a < b THEN a ELSE b
Max(a, b) == IF a > b THEN a ELSE b

\* the empty table pd.DataFrame(): no columns, no rows
EmptyFrame == [cols |-> {}, rows |-> <<>>]

\* ------------------------------------------------------------------------
\* State
\* ------------------------------------------------------------------------
VARIABLES
    op,            \* the DataExtractor operation in progress
    arg_retries,   \* fetch_with_retry: max_retries as passed (0: None or 0)
    arg_delay,     \* fetch_with_retry: delay as passed (0: None or 0)
    max_retries,   \* fetch_with_retry: the local max_retries
    delay,         \* fetch_with_retry: the local delay
    attempt,       \* fetch_with_retry: the loop variable
    fwr_pc,        \* fetch_with_retry: "idle", "loop", "returned", "raised"
    fwr_val,       \* fetch_with_retry: the value returned
    fwr_err,       \* fetch_with_retry: the exception raised ("" if none)
    invocations,   \* history: outcome of each call of func, in order
    sleeps,        \* history: the durations passed to time.sleep, in order
    days,          \* fetch_ridership_data: days
    max_records,   \* fetch_ridership_data: max_records
    day_offset,    \* fetch_ridership_data: the loop variable
    all_data,      \* fetch_ridership_data: all_data
    windows,       \* history: one entry per window requested
    out            \* what the operation returned or raised

extract_vars == <<op, arg_retries, arg_delay, max_retries, delay, attempt,
                  fwr_pc, fwr_val, fwr_err, invocations, sleeps, days,
                  max_records, day_offset, all_data, windows, out>>

VARIABLES
    quality_metrics,  \* self.quality_metrics: dataset name -> report
    t_pc,             \* "idle", or "done" once the call has ended
    t_call,           \* the call made: its name, its arguments
    t_out             \* what it returned or raised, and what it went through

transform_vars == <<quality_metrics, t_pc, t_call, t_out>>

VARIABLES
    cache_file,       \* app.py: the file CACHE_FILE, if it exists, and its table
    ld_pc,            \* load_data: the position of the call
    ld,               \* load_data: its locals, and what the call has done
    ld_out            \* load_data: what it returned or raised

app_vars == <<cache_file, ld_pc, ld, ld_out>>

VARIABLES
    pipeline_metrics, \* ETLPipeline: self.pipeline_metrics
    run_pc,           \* run: the position of the call
    run,              \* run: its arguments and locals
    loaded,           \* history: the loading actions executed, in order
    run_out           \* run: what it returned

pipeline_vars == <<pipeline_metrics, run_pc, run, loaded, run_out>>

driver_vars == <<app_vars, pipeline_vars>>

vars == <<extract_vars, transform_vars, driver_vars>>

NoOut == [kind |-> "none", table |-> EmptyFrame, err |-> ""]

\* ------------------------------------------------------------------------
\* fetch_with_retry (data_extraction.py 34-46)
\* ------------------------------------------------------------------------
\* mutant: a ceiling of 0 is taken as given
Mut_EffectiveRetriesAsGiven(n) == n

\* max_retries = max_retries or self.max_retries
EffectiveRetries(n) == IF n # 0 THEN n ELSE DefaultMaxRetries

\* delay = delay or self.retry_delay
EffectiveDelay(d) == IF d # 0 THEN d ELSE DefaultRetryDelay

\* mutant: gives up one attempt early
Mut_RetryAllowedEarly(a, n) == a < n - 2

\* if attempt < max_retries - 1: sleep and go round again, else: raise
RetryAllowed(a, n) == a < n - 1

\* mutant: the same pause after every failed attempt
Mut_BackoffConstant(d, a) == d

\* time.sleep(delay * (attempt + 1))
Backoff(d, a) == d * (a + 1)

\* entry of fetch_with_retry(func, n, d): the two `or` lines, then the for
\* loop is entered; range(max_retries) is empty when max_retries <= 0 and
\* the function then falls off its end, returning None (modelled as <<>>).
EnterFetchWithRetry(n, d) ==
    /\ arg_retries' = n
    /\ arg_delay' = d
    /\ max_retries' = EffectiveRetries(n)
    /\ delay' = EffectiveDelay(d)
    /\ attempt' = 0
    /\ fwr_pc' = IF EffectiveRetries(n) > 0 THEN "loop" ELSE "returned"
    /\ fwr_val' = <<>>
    /\ fwr_err' = ""
    /\ invocations' = <<>>
    /\ sleeps' = <<>>


\* ------------------------------------------------------------------------
\* The upstream services, as the requests see them
\* ------------------------------------------------------------------------
\* An ISO-8601 timestamp text is modelled as the pair <<day, time of day>>.
RawTimestamp(tick) == <<tick \div TicksPerDay, tick % TicksPerDay>>

\* The n records the ridership endpoint returns for
\*   $where transit_timestamp >= '<lo day>T00:00:00'
\*      AND transit_timestamp <  '<hi day>T23:59:59',  $order ... DESC:
\* newest first, v records per tick, every one inside the predicate.
Batch(lo_day, hi_day, n, v) ==
    LET lo == lo_day * TicksPerDay
        hi == hi_day * TicksPerDay + (TicksPerDay - 1) - 1
    IN  [i \in 1..n |->
            [transit_timestamp |-> RawTimestamp(Max(lo, hi - ((i - 1) \div v))),
             ridership |-> i % 3]]

\* The daily archive's answer for the days 0..d-1 (parallel arrays under
\* "daily"), in variant v; <<>> stands for a JSON object without "daily".
Daily(d, v) ==
    [time |-> [i \in 1..d |-> i - 1],
     temperature_2m_mean |-> [i \in 1..d |-> 10 * v + i],
     precipitation_sum |-> [i \in 1..d |-> (i + v) % 3],
     windspeed_10m_max |-> [i \in 1..d |-> 2 * i + v]]

WeatherPayloads(d) == {<<>>} \cup {<<Daily(d, v)>> : v \in 1..2}

\* what a thunk passed directly to fetch_with_retry may return
DirectPayloads == {<<>>, Batch(0, 0, 1, 1)}

\* ------------------------------------------------------------------------
\* fetch_ridership_data (data_extraction.py 48-133)
\* ------------------------------------------------------------------------
\* records_per_day = max_records // days if days > 0 else 50000
RecordsPerDay(m, d) == IF d > 0 THEN m \div d ELSE DefaultRecordsPerDay

\* mutant: the limit is taken from the undivided quotient
Mut_LimitProportional(m, d) == (7 * m) \div d

\* "$limit": records_per_day * 7
Limit(m, d) == RecordsPerDay(m, d) * 7

\* mutant: the window's end is not held back at end_date
Mut_WeekEndUnclamped(offset, d) == offset + (WindowDays - 1)

\* week_end = min(current_date + timedelta(days=6), end_dt), as a day number
WeekEnd(offset, d) == Min(offset + (WindowDays - 1), d - 1)

\* if len(all_data) >= max_records
ReachedTarget(data, m) == Len(data) >= m

\* mutant: the slice is forgotten
Mut_TruncateNothing(data, m) == data

\* all_data = all_data[:max_records]
Truncate(data, m) == SubSeq(data, 1, Min(m, Len(data)))

\* range(0, days, 7): is there a window after the one at `offset`?
HasNextWindow(offset, d) == offset + WindowDays < d

\* pd.to_datetime(text, errors='coerce')
ToDatetime(s) ==
    IF Len(s) = 2 /\ s[2] \in 0..(TicksPerDay - 1)
    THEN s[1] * TicksPerDay + s[2]
    ELSE NaT

\* pd.to_numeric(x, errors='coerce')
ToNumeric(x) == IF x >= 0 THEN x ELSE NaN

\* df.dropna(subset=['date'])
DropNaDate(rows) == SelectSeq(rows, LAMBDA r : r.date # NaT)

\* df.sort_values('date'): ascending; rows of equal date keep their order
RECURSIVE InsertByDate(_, _)
InsertByDate(sorted, r) ==
    IF sorted = <<>> THEN <<r>>
    ELSE IF sorted[Len(sorted)].date <= r.date THEN Append(sorted, r)
    ELSE Append(InsertByDate(SubSeq(sorted, 1, Len(sorted) - 1), r),
                sorted[Len(sorted)])

RECURSIVE SortByDate(_)
SortByDate(rows) ==
    IF rows = <<>> THEN <<>>
    ELSE InsertByDate(SortByDate(SubSeq(rows, 1, Len(rows) - 1)), rows[Len(rows)])

\* lines 119-133: the table built from all_data
PostProcess(data) ==
    LET parsed == [i \in 1..Len(data) |->
                     [transit_timestamp |-> data[i].transit_timestamp,
                      ridership |-> ToNumeric(data[i].ridership),
                      date |-> ToDatetime(data[i].transit_timestamp)]]
    IN  [cols |-> {"transit_timestamp", "ridership", "date"},
         rows |-> SortByDate(DropNaDate(parsed))]

\* lines 157-162: one row per element of daily["time"]
Reshape(payload) ==
    IF payload = <<>>
    THEN [cols |-> {"date", "temperature_mean", "precipitation", "windspeed"},
          rows |-> <<>>]
    ELSE LET daily == payload[1]
         IN  [cols |-> {"date", "temperature_mean", "precipitation", "windspeed"},
              rows |-> [i \in 1..Len(daily.time) |->
                          [date |-> daily.time[i] * TicksPerDay,
                           temperature_mean |-> daily.temperature_2m_mean[i],
                           precipitation |-> daily.precipitation_sum[i],
                           windspeed |-> daily.windspeed_10m_max[i]]]]

\* what the thunk of the operation in progress may return
Responses ==
    CASE op = "fwr" -> DirectPayloads
      [] op = "ridership" ->
            {Batch(day_offset, WeekEnd(day_offset, days), n, v) :
                n \in 0..Min(Limit(max_records, days), MaxBatch), v \in 1..2}
      [] op = "weather" -> WeatherPayloads(days)
      [] OTHER -> {}

ExtractInit ==
    /\ op = "idle"
    /\ arg_retries = 0
    /\ arg_delay = 0
    /\ max_retries = 0
    /\ delay = 0
    /\ attempt = 0
    /\ fwr_pc = "idle"
    /\ fwr_val = <<>>
    /\ fwr_err = ""
    /\ invocations = <<>>
    /\ sleeps = <<>>
    /\ days = 0
    /\ max_records = 0
    /\ day_offset = 0
    /\ all_data = <<>>
    /\ windows = <<>>
    /\ out = NoOut

\* a caller invokes fetch_with_retry(func, max_retries=n, delay=d) directly
CallFetchWithRetry ==
    /\ op = "idle"
    /\ \E n \in 0..MaxRetriesArg, d \in 0..MaxDelayArg : EnterFetchWithRetry(n, d)
    /\ op' = "fwr"
    /\ UNCHANGED <<days, max_records, day_offset, all_data, windows, out>>
    /\ UNCHANGED <<transform_vars, driver_vars>>

\* one pass of the loop body in which func() returns (line 40)
InvokeOk ==
    /\ fwr_pc = "loop"
    /\ \E payload \in Responses :
          /\ invocations' = Append(invocations, [err |-> "", val |-> payload])
          /\ fwr_val' = payload
    /\ fwr_pc' = "returned"
    /\ UNCHANGED <<op, arg_retries, arg_delay, max_retries, delay, attempt,
                   fwr_err, sleeps, days, max_records, day_offset, all_data,
                   windows, out>>
    /\ UNCHANGED <<transform_vars, driver_vars>>

\* one pass of the loop body in which func() raises (lines 41-46)
InvokeFail ==
    /\ fwr_pc = "loop"
    /\ \E e \in Errors :
          /\ invocations' = Append(invocations, [err |-> e, val |-> <<>>])
          /\ IF RetryAllowed(attempt, max_retries)
             THEN /\ sleeps' = Append(sleeps, Backoff(delay, attempt))
                  /\ attempt' = attempt + 1
                  /\ fwr_pc' = IF attempt + 1 < max_retries THEN "loop" ELSE "returned"
                  /\ fwr_err' = fwr_err
             ELSE /\ fwr_pc' = "raised"
                  /\ fwr_err' = e
                  /\ UNCHANGED <<sleeps, attempt>>
    /\ UNCHANGED <<op, arg_retries, arg_delay, max_retries, delay, fwr_val,
                   days, max_records, day_offset, all_data, windows, out>>
    /\ UNCHANGED <<transform_vars, driver_vars>>

\* entry of fetch_ridership_data(days d, max_records m), lines 64-73
CallFetchRidership ==
    /\ op = "idle"
    /\ \E d \in 0..MaxDays, m \in 1..MaxRecords :
          /\ days' = d
          /\ max_records' = m
          /\ IF d > 0
             THEN op' = "ridership" /\ EnterFetchWithRetry(0, 0)
             ELSE /\ op' = "ridership_post"
                  /\ UNCHANGED <<arg_retries, arg_delay, max_retries, delay,
                                 attempt, fwr_pc, fwr_val, fwr_err,
                                 invocations, sleeps>>
    /\ day_offset' = 0
    /\ all_data' = <<>>
    /\ windows' = <<>>
    /\ out' = NoOut
    /\ UNCHANGED <<transform_vars, driver_vars>>

\* the entry of `windows` for the window just requested
WindowEntry(result, batch) ==
    [offset |-> day_offset, week_end |-> WeekEnd(day_offset, days),
     limit |-> Limit(max_records, days), outcome |-> result, batch |-> batch]

\* the for loop goes to its next window, or ends
NextWindow ==
    IF HasNextWindow(day_offset, days)
    THEN /\ day_offset' = day_offset + WindowDays
         /\ EnterFetchWithRetry(0, 0)
         /\ op' = "ridership"
    ELSE /\ op' = "ridership_post"
         /\ UNCHANGED <<day_offset, arg_retries, arg_delay, max_retries, delay,
                        attempt, fwr_pc, fwr_val, fwr_err, invocations, sleeps>>

\* lines 97-107: fetch_with_retry returned the window's batch
WindowFetched ==
    /\ op = "ridership"
    /\ fwr_pc = "returned"
    /\ windows' = Append(windows, WindowEntry("ok", fwr_val))
    /\ LET data == IF fwr_val # <<>> THEN all_data \o fwr_val ELSE all_data
       IN  IF ReachedTarget(data, max_records)
           THEN /\ all_data' = Truncate(data, max_records)
                /\ op' = "ridership_post"
                /\ UNCHANGED <<day_offset, arg_retries, arg_delay, max_retries,
                               delay, attempt, fwr_pc, fwr_val, fwr_err,
                               invocations, sleeps>>
           ELSE /\ all_data' = data
                /\ NextWindow
    /\ UNCHANGED <<days, max_records, out>>
    /\ UNCHANGED <<transform_vars, driver_vars>>

\* mutant: `break` in place of `continue`
Mut_WindowFailedBreak ==
    /\ op = "ridership"
    /\ fwr_pc = "raised"
    /\ windows' = Append(windows, WindowEntry("failed", <<>>))
    /\ op' = "ridership_post"
    /\ UNCHANGED <<day_offset, arg_retries, arg_delay, max_retries, delay,
                   attempt, fwr_pc, fwr_val, fwr_err, invocations, sleeps>>
    /\ UNCHANGED <<days, max_records, all_data, out>>
    /\ UNCHANGED <<transform_vars, driver_vars>>

\* lines 109-111: fetch_with_retry raised; the window is logged and skipped
WindowFailed ==
    /\ op = "ridership"
    /\ fwr_pc = "raised"
    /\ windows' = Append(windows, WindowEntry("failed", <<>>))
    /\ NextWindow
    /\ UNCHANGED <<days, max_records, all_data, out>>
    /\ UNCHANGED <<transform_vars, driver_vars>>

\* mutant: no data is reported by raising
Mut_RidershipReturnRaises ==
    /\ op = "ridership_post"
    /\ out.kind = "none"
    /\ out' = IF all_data = <<>>
              THEN [kind |-> "raised", table |-> EmptyFrame, err |-> "ValueError"]
              ELSE [kind |-> "returned", table |-> PostProcess(all_data), err |-> ""]
    /\ UNCHANGED <<op, arg_retries, arg_delay, max_retries, delay, attempt,
                   fwr_pc, fwr_val, fwr_err, invocations, sleeps, days,
                   max_records, day_offset, all_data, windows>>
    /\ UNCHANGED <<transform_vars, driver_vars>>

\* lines 113-133: after the loop
RidershipReturn ==
    /\ op = "ridership_post"
    /\ out.kind = "none"
    /\ out' = [kind |-> "returned",
               table |-> IF all_data = <<>> THEN EmptyFrame ELSE PostProcess(all_data),
               err |-> ""]
    /\ UNCHANGED <<op, arg_retries, arg_delay, max_retries, delay, attempt,
                   fwr_pc, fwr_val, fwr_err, invocations, sleeps, days,
                   max_records, day_offset, all_data, windows>>
    /\ UNCHANGED <<transform_vars, driver_vars>>

\* entry of fetch_weather_data for the days 0..d-1, lines 136-154
CallFetchWeather ==
    /\ op = "idle"
    /\ \E d \in 1..MaxDays : days' = d
    /\ op' = "weather"
    /\ EnterFetchWithRetry(0, 0)
    /\ out' = NoOut
    /\ UNCHANGED <<max_records, day_offset, all_data, windows>>
    /\ UNCHANGED <<transform_vars, driver_vars>>

\* lines 154-166: fetch_with_retry returned the archive's answer
WeatherFetched ==
    /\ op = "weather"
    /\ fwr_pc = "returned"
    /\ out.kind = "none"
    /\ out' = [kind |-> "returned", table |-> Reshape(fwr_val), err |-> ""]
    /\ UNCHANGED <<op, arg_retries, arg_delay, max_retries, delay, attempt,
                   fwr_pc, fwr_val, fwr_err, invocations, sleeps, days,
                   max_records, day_offset, all_data, windows>>
    /\ UNCHANGED <<transform_vars, driver_vars>>

\* mutant: the failure is swallowed as in fetch_ridership_data
Mut_WeatherFailedSwallowed ==
    /\ op = "weather"
    /\ fwr_pc = "raised"
    /\ out.kind = "none"
    /\ out' = [kind |-> "returned", table |-> Reshape(<<>>), err |-> ""]
    /\ UNCHANGED <<op, arg_retries, arg_delay, max_retries, delay, attempt,
                   fwr_pc, fwr_val, fwr_err, invocations, sleeps, days,
                   max_records, day_offset, all_data, windows>>
    /\ UNCHANGED <<transform_vars, driver_vars>>

\* line 154: fetch_with_retry raised; nothing catches it
WeatherFailed ==
    /\ op = "weather"
    /\ fwr_pc = "raised"
    /\ out.kind = "none"
    /\ out' = [kind |-> "raised", table |-> EmptyFrame, err |-> fwr_err]
    /\ UNCHANGED <<op, arg_retries, arg_delay, max_retries, delay, attempt,
                   fwr_pc, fwr_val, fwr_err, invocations, sleeps, days,
                   max_records, day_offset, all_data, windows>>
    /\ UNCHANGED <<transform_vars, driver_vars>>

ExtractNext ==
    \/ CallFetchWithRetry
    \/ InvokeOk
    \/ InvokeFail
    \/ CallFetchRidership
    \/ WindowFetched
    \/ WindowFailed
    \/ RidershipReturn
    \/ CallFetchWeather
    \/ WeatherFetched
    \/ WeatherFailed



\* ------------------------------------------------------------------------
\* Properties of the extractor (checked under SpecExtract)
\* ------------------------------------------------------------------------
Last(seq) == seq[Len(seq)]

AllFailed(calls) == \A i \in 1..Len(calls) : calls[i].err # ""

\* number of elements of seq equal to x
Count(seq, x) == Cardinality({i \in 1..Len(seq) : seq[i] = x})

SameBag(s, t) ==
    /\ Len(s) = Len(t)
    /\ \A i \in 1..Len(s) : Count(s, s[i]) = Count(t, s[i])

\* range(0, days, 7) has ceil(days / 7) elements
NumWindows(d) == (d + (WindowDays - 1)) \div WindowDays

RECURSIVE SucceededRows(_)
SucceededRows(ws) ==
    IF ws = <<>> THEN <<>>
    ELSE SucceededRows(SubSeq(ws, 1, Len(ws) - 1))
            \o (IF Last(ws).outcome = "ok" THEN Last(ws).batch ELSE <<>>)

\* a row of the returned table, as the upstream record it came from
AsFetched(rows) ==
    [i \in 1..Len(rows) |->
        [transit_timestamp |-> rows[i].transit_timestamp,
         ridership |-> rows[i].ridership]]

InRidership == op \in {"ridership", "ridership_post"}

\* C1: fetch_with_retry(func, max_retries=n), n >= 1, calls func at most n
\* times; every call before the last one failed (it stops at the first
\* success) and a successful call ends it, returning that call's result; it
\* raises exactly when all n calls failed, and what it raises is the failure
\* of the n-th call.
ThmC1_RetryContract ==
    (op = "fwr" /\ arg_retries >= 1) =>
        /\ Len(invocations) <= arg_retries
        /\ AllFailed(SubSeq(invocations, 1, Len(invocations) - 1))
        /\ fwr_pc = "loop" =>
              AllFailed(invocations) /\ Len(invocations) < arg_retries
        /\ fwr_pc = "returned" =>
              /\ invocations # <<>>
              /\ Last(invocations).err = ""
              /\ fwr_val = Last(invocations).val
        /\ fwr_pc = "raised" =>
              /\ Len(invocations) = arg_retries
              /\ AllFailed(invocations)
              /\ fwr_err = invocations[arg_retries].err

\* two calls allowed, both fail with different errors, the second is raised
WitC1_SecondFailureRaised ==
    /\ op = "fwr"
    /\ arg_retries = 2
    /\ fwr_pc = "raised"
    /\ Len(invocations) = 2
    /\ invocations[1].err # invocations[2].err
    /\ fwr_err = invocations[2].err

\* C2: once a window of fetch_ridership_data has failed after all retries,
\* the operation neither raises nor stops: when it returns, every window of
\* the range has been requested, and the returned table holds exactly the
\* records of the windows that succeeded.
ThmC2_FailedWindowSkipped ==
    (InRidership /\ \E i \in 1..Len(windows) : windows[i].outcome = "failed") =>
        /\ out.kind # "raised"
        /\ op = "ridership_post" =>
              /\ Len(windows) = NumWindows(days)
              /\ \A i \in 1..Len(windows) : windows[i].offset = WindowDays * (i - 1)
        /\ out.kind = "returned" =>
              SameBag(AsFetched(out.table.rows), SucceededRows(windows))

\* three windows: the first and the third deliver records, the second fails
WitC2_MiddleWindowFailed ==
    /\ InRidership
    /\ out.kind = "returned"
    /\ Len(windows) = 3
    /\ windows[1].outcome = "ok" /\ windows[1].batch # <<>>
    /\ windows[2].outcome = "failed"
    /\ windows[3].outcome = "ok" /\ windows[3].batch # <<>>
    /\ Len(out.table.rows) = Len(windows[1].batch) + Len(windows[3].batch)

\* C3: fetch_weather_data makes one fetch_with_retry call for the whole
\* range; when every attempt of it fails the failure of the last attempt
\* leaves fetch_weather_data as an exception, and a table is returned only
\* from the answer of a successful attempt.
ThmC3_WeatherFailureFatal ==
    (op = "weather") =>
        /\ windows = <<>>
        /\ Len(invocations) <= DefaultMaxRetries
        /\ fwr_pc = "raised" => out.kind \in {"none", "raised"}
        /\ out.kind = "raised" =>
              /\ fwr_pc = "raised"
              /\ AllFailed(invocations)
              /\ Len(invocations) = DefaultMaxRetries
              /\ out.err = Last(invocations).err
        /\ out.kind = "returned" =>
              /\ invocations # <<>>
              /\ Last(invocations).err = ""
              /\ out.table = Reshape(Last(invocations).val)

\* all three attempts of the weather request failed and the call raised
WitC3_WeatherRaised ==
    /\ op = "weather"
    /\ out.kind = "raised"
    /\ Len(invocations) = DefaultMaxRetries
    /\ AllFailed(invocations)

\* C4: in fetch_ridership_data the loop goes on only while the running total
\* is below max_records; when the records fetched reach max_records the
\* accumulated rows are cut to exactly max_records and no further window is
\* requested, so the returned table has at most max_records rows.
ThmC4_MaxRecordsCap ==
    InRidership =>
        /\ op = "ridership" => Len(all_data) < max_records
        /\ Len(all_data) <= max_records
        /\ Len(SucceededRows(windows)) >= max_records =>
              /\ Len(all_data) = max_records
              /\ all_data = SubSeq(SucceededRows(windows), 1, max_records)
              /\ op = "ridership_post"
        /\ out.kind = "returned" => Len(out.table.rows) <= max_records

\* more records were fetched than max_records and the table was cut to it
WitC4_Truncated ==
    /\ InRidership
    /\ out.kind = "returned"
    /\ Len(windows) = 2
    /\ Len(SucceededRows(windows)) > max_records
    /\ Len(out.table.rows) = max_records

\* C5: fetch_ridership_data returns the empty table, and does not raise,
\* when every window either failed or returned no rows.
ThmC5_NoDataEmptyTable ==
    (/\ op = "ridership_post"
     /\ out.kind # "none"
     /\ \A i \in 1..Len(windows) :
           windows[i].outcome = "failed" \/ windows[i].batch = <<>>) =>
        /\ out.kind = "returned"
        /\ out.table = EmptyFrame

\* three windows were requested, all three failed, the empty table came back
WitC5_AllWindowsFailed ==
    /\ op = "ridership_post"
    /\ Len(windows) = 3
    /\ \A i \in 1..3 : windows[i].outcome = "failed"
    /\ out.kind = "returned"
    /\ out.table = EmptyFrame


\* ------------------------------------------------------------------------
\* DataTransformer (data_transformation.py)
\* ------------------------------------------------------------------------
\* A table is [cols |-> the column names, rows |-> a sequence of records over
\* cols].  Number columns hold integers: temperature_mean in tenths of a
\* degree Celsius, precipitation in tenths of a millimetre, windspeed in
\* tenths of a metre per second; a date is a tick, a missing value NaT / NaN.
IsNull(x) == x = NaT \/ x = NaN

Frame(cols, rows) == [cols |-> cols, rows |-> rows]

\* df.empty
IsEmpty(df) == df.cols = {} \/ df.rows = <<>>

\* the dict `report` with report[key] = val
Put(report, key, val) == (key :> val) @@ report

\* the columns that hold text as the upstream sent it (never missing in the
\* modelled answers)
TextColumns == {"transit_timestamp"}

\* df.isnull().sum(), a count per column
NullCounts(df) ==
    [c \in df.cols |->
        IF c \in TextColumns THEN 0
        ELSE Cardinality({i \in 1..Len(df.rows) : IsNull(df.rows[i][c])})]

\* mutant: a row with a missing value in any column goes
Mut_DropAnyNull(rows) ==
    SelectSeq(rows, LAMBDA r : \A c \in DOMAIN r : ~IsNull(r[c]))

\* df.dropna(subset=['date']) on a table that has the column
DropNullDates(rows) == SelectSeq(rows, LAMBDA r : ~IsNull(r.date))

\* df.drop_duplicates(keep='first'): a row equal in every column to an
\* earlier row goes, the others keep their order
RECURSIVE DropDuplicates(_)
DropDuplicates(rows) ==
    IF rows = <<>> THEN <<>>
    ELSE LET front == SubSeq(rows, 1, Len(rows) - 1)
         IN  IF \E i \in 1..Len(front) : front[i] = rows[Len(rows)]
             THEN DropDuplicates(front)
             ELSE Append(DropDuplicates(front), rows[Len(rows)])

\* df['date'].min() and .max(); NaT for a series without values
DateMin(rows) ==
    IF rows = <<>> THEN NaT
    ELSE CHOOSE d \in {rows[i].date : i \in 1..Len(rows)} :
            \A j \in 1..Len(rows) : d <= rows[j].date

DateMax(rows) ==
    IF rows = <<>> THEN NaT
    ELSE CHOOSE d \in {rows[i].date : i \in 1..Len(rows)} :
            \A j \in 1..Len(rows) : d >= rows[j].date

\* round(final_rows / initial_rows * 100, 2), in hundredths of a percent:
\* the nearest hundredth, a tie going to the even one
RoundedScore(final_rows, initial_rows) ==
    LET q == (10000 * final_rows) \div initial_rows
        r == (10000 * final_rows) % initial_rows
    IN  IF 2 * r < initial_rows THEN q
        ELSE IF 2 * r > initial_rows THEN q + 1
        ELSE IF q % 2 = 0 THEN q ELSE q + 1

\* mutant: the status is read off the rounded score
Mut_ScoreStatusRounded(final_rows, initial_rows) ==
    IF RoundedScore(final_rows, initial_rows) >= 9000 THEN "PASSED" ELSE "WARNING"

\* 'PASSED' if quality_score >= 90 else 'WARNING', quality_score being the
\* unrounded final_rows / initial_rows * 100
ScoreStatus(final_rows, initial_rows) ==
    IF 100 * final_rows >= 90 * initial_rows THEN "PASSED" ELSE "WARNING"

\* mutant: rows_removed is the number of rows there were
Mut_CloseReportRemovedAll(report, final_rows, initial_rows) ==
    Put(Put(Put(Put(report,
        "final_rows", final_rows),
        "rows_removed", initial_rows),
        "quality_score", RoundedScore(final_rows, initial_rows)),
        "status", ScoreStatus(final_rows, initial_rows))

\* lines 123-129: the closing entries of a report
CloseReport(report, final_rows, initial_rows) ==
    Put(Put(Put(Put(report,
        "final_rows", final_rows),
        "rows_removed", initial_rows - final_rows),
        "quality_score", RoundedScore(final_rows, initial_rows)),
        "status", ScoreStatus(final_rows, initial_rows))

\* lines 50-55: the report as first built (its wall-clock timestamp left out)
NewReport(df, dataset_name) ==
    [dataset |-> dataset_name, initial_rows |-> Len(df.rows)]

\* lines 64-131 on a non-empty table that has a date column
CheckedReport(df, dataset_name) ==
    LET counts == NullCounts(df)
        r3 == IF \E c \in df.cols : counts[c] > 0
              THEN Put(NewReport(df, dataset_name), "null_counts", counts)
              ELSE NewReport(df, dataset_name)
        kept == DropNullDates(df.rows)
        rows_removed_nulls == Len(df.rows) - Len(kept)
        r4 == IF rows_removed_nulls > 0
              THEN Put(r3, "rows_removed_nulls", rows_removed_nulls)
              ELSE r3
        cleaned == DropDuplicates(kept)
        duplicates == Len(kept) - Len(cleaned)
        r5 == IF duplicates > 0 THEN Put(r4, "duplicates_removed", duplicates) ELSE r4
        r6 == Put(r5, "date_range",
                  [min |-> DateMin(cleaned), max |-> DateMax(cleaned)])
    IN  [kind |-> "returned",
         table |-> Frame(df.cols, cleaned),
         stored |-> TRUE,
         report |-> CloseReport(r6, Len(cleaned), Len(df.rows)),
         err |-> ""]

\* lines 64-84 on a non-empty table without a date column: the missing column
\* goes into the local report, then df.dropna(subset=['date']) raises
\* KeyError before the report is stored
ValidateWithoutDate(df, dataset_name) ==
    [kind |-> "raised",
     table |-> EmptyFrame,
     stored |-> FALSE,
     report |-> Put(NewReport(df, dataset_name), "missing_columns", {"date"}),
     err |-> "KeyError"]

\* mutant: the empty table goes through the later checks as well
Mut_ValidateEmptyChecked(df, dataset_name) ==
    [kind |-> "returned",
     table |-> df,
     stored |-> TRUE,
     report |-> Put(Put(Put(NewReport(df, dataset_name),
                   "final_rows", 0), "rows_removed", 0),
                   "status", "FAILED - Empty dataset"),
     err |-> ""]

\* lines 58-62: the empty table
ValidateEmpty(df, dataset_name) ==
    [kind |-> "returned",
     table |-> df,
     stored |-> TRUE,
     report |-> Put(NewReport(df, dataset_name), "status", "FAILED - Empty dataset"),
     err |-> ""]

\* validate_data_quality(df, dataset_name), lines 48-136: what it returns or
\* raises, and the report it stores under dataset_name when `stored`
ValidateDataQuality(df, dataset_name) ==
    IF IsEmpty(df) THEN ValidateEmpty(df, dataset_name)
    ELSE IF "date" \notin df.cols THEN ValidateWithoutDate(df, dataset_name)
    ELSE CheckedReport(df, dataset_name)

\* mutant: every stored report starts the dict afresh
Mut_StoreFresh(metrics, dataset_name, v) ==
    IF v.stored THEN (dataset_name :> v.report) ELSE metrics

\* self.quality_metrics[dataset_name] = quality_report, when that line is reached
Store(metrics, dataset_name, v) ==
    IF v.stored THEN Put(metrics, dataset_name, v.report) ELSE metrics


\* ------------------------------------------------------------------------
\* add_derived_features (lines 138-239)
\* ------------------------------------------------------------------------
\* Derived number columns hold integers too: temperature_f in 1/50 of a
\* degree Fahrenheit, precipitation_in in 1/12700 of an inch, windspeed_mph
\* in 1/10000 of a mile per hour, weather_impact_score in 1/476250000.

\* (temperature_mean * 9/5) + 32
Fahrenheit(c) == IF IsNull(c) THEN NaN ELSE 9 * c + 1600

\* precipitation / 25.4
Inches(mm) == IF IsNull(mm) THEN NaN ELSE 50 * mm

\* windspeed * 2.237
Mph(w) == IF IsNull(w) THEN NaN ELSE 2237 * w

Abs(x) == IF x < 0 THEN 0 - x ELSE x

\* np.clip(x, lo, hi)
Clip(x, lo, hi) == IF x < lo THEN lo ELSE IF x > hi THEN hi ELSE x

\* mutant: each bin is closed on the left, a boundary value going up
Mut_TempCategoryLeftClosed(f) ==
    IF IsNull(f) THEN "nan"
    ELSE IF f < 1600 THEN "Freezing"
    ELSE IF f < 2500 THEN "Cold"
    ELSE IF f < 3400 THEN "Mild"
    ELSE IF f < 4250 THEN "Warm"
    ELSE "Hot"

\* pd.cut(temperature_f, bins=[-inf, 32, 50, 68, 85, inf], labels=...)
TempCategory(f) ==
    IF IsNull(f) THEN "nan"
    ELSE IF f <= 1600 THEN "Freezing"
    ELSE IF f <= 2500 THEN "Cold"
    ELSE IF f <= 3400 THEN "Mild"
    ELSE IF f <= 4250 THEN "Warm"
    ELSE "Hot"

\* pd.cut(precipitation_in, bins=[-inf, 0.01, 0.1, 0.5, inf], labels=...)
RainCategory(p) ==
    IF IsNull(p) THEN "nan"
    ELSE IF p <= 127 THEN "No Rain"
    ELSE IF p <= 1270 THEN "Light Rain"
    ELSE IF p <= 6350 THEN "Moderate Rain"
    ELSE "Heavy Rain"

\* (precipitation_in > 0.01).astype(int)
IsRainy(p) == IF ~IsNull(p) /\ p > 127 THEN 1 ELSE 0

\* temp_discomfort * 0.4 + precip_norm * 0.4 + wind_norm * 0.2, with
\* temp_discomfort = abs(temperature_f - 65) / 30,
\* precip_norm = clip(precipitation_in / 0.5, 0, 1),
\* wind_norm = clip(windspeed_mph / 25, 0, 1)
WeatherImpactScore(f, p, w) ==
    IF IsNull(f) \/ IsNull(p) \/ IsNull(w) THEN NaN
    ELSE 127000 * Abs(f - 3250) + 30000 * Clip(p, 0, 6350) + 381 * Clip(w, 0, 250000)

\* pd.cut(weather_impact_score, bins=[-inf, 0.3, 0.6, inf], labels=...)
WeatherCondition(sc) ==
    IF IsNull(sc) THEN "nan"
    ELSE IF sc <= 142875000 THEN "Good"
    ELSE IF sc <= 285750000 THEN "Moderate"
    ELSE "Poor"

\* date.dt.dayofweek, Monday 0; day 0 is 2023-01-01, a Sunday
DayOfWeek(tick) == ((tick \div TicksPerDay) + 6) % 7

\* mutant: the score is computed as soon as there is a temperature, a
\* missing precipitation or wind counting as none
Mut_DerivedRowScoreAlways(cols, r) ==
    LET conv == (IF "temperature_mean" \in cols
                 THEN ("temperature_f" :> Fahrenheit(r.temperature_mean)) ELSE <<>>)
             @@ (IF "precipitation" \in cols
                 THEN ("precipitation_in" :> Inches(r.precipitation)) ELSE <<>>)
             @@ (IF "windspeed" \in cols
                 THEN ("windspeed_mph" :> Mph(r.windspeed)) ELSE <<>>)
        r1 == conv @@ r
        cal == [day_of_week |-> DayOfWeek(r.date),
                is_weekend |-> IF DayOfWeek(r.date) \in {5, 6} THEN 1 ELSE 0,
                is_weekday |-> IF DayOfWeek(r.date) \in {5, 6} THEN 0 ELSE 1]
        r2 == cal @@ r1
        cat == (IF "temperature_f" \in DOMAIN r2
                THEN ("temp_category" :> TempCategory(r2.temperature_f)) ELSE <<>>)
            @@ (IF "precipitation_in" \in DOMAIN r2
                THEN ("rain_category" :> RainCategory(r2.precipitation_in))
                     @@ ("is_rainy" :> IsRainy(r2.precipitation_in))
                ELSE <<>>)
        r3 == cat @@ r2
        score == IF "temperature_f" \in DOMAIN r3
                 THEN LET sc == WeatherImpactScore(
                                   r3.temperature_f,
                                   IF "precipitation_in" \in DOMAIN r3
                                   THEN r3.precipitation_in ELSE 0,
                                   IF "windspeed_mph" \in DOMAIN r3
                                   THEN r3.windspeed_mph ELSE 0)
                      IN  ("weather_impact_score" :> sc)
                          @@ ("weather_condition" :> WeatherCondition(sc))
                 ELSE <<>>
    IN  score @@ r3

\* the columns one row gains; the calendar columns that are further
\* functions of the date alone (year, month, day, day_name, week_of_year,
\* quarter, season) are left out of the model
DerivedRow(cols, r) ==
    LET conv == (IF "temperature_mean" \in cols
                 THEN ("temperature_f" :> Fahrenheit(r.temperature_mean)) ELSE <<>>)
             @@ (IF "precipitation" \in cols
                 THEN ("precipitation_in" :> Inches(r.precipitation)) ELSE <<>>)
             @@ (IF "windspeed" \in cols
                 THEN ("windspeed_mph" :> Mph(r.windspeed)) ELSE <<>>)
        r1 == conv @@ r
        cal == [day_of_week |-> DayOfWeek(r.date),
                is_weekend |-> IF DayOfWeek(r.date) \in {5, 6} THEN 1 ELSE 0,
                is_weekday |-> IF DayOfWeek(r.date) \in {5, 6} THEN 0 ELSE 1]
        r2 == cal @@ r1
        cat == (IF "temperature_f" \in DOMAIN r2
                THEN ("temp_category" :> TempCategory(r2.temperature_f)) ELSE <<>>)
            @@ (IF "precipitation_in" \in DOMAIN r2
                THEN ("rain_category" :> RainCategory(r2.precipitation_in))
                     @@ ("is_rainy" :> IsRainy(r2.precipitation_in))
                ELSE <<>>)
        r3 == cat @@ r2
        score == IF {"temperature_f", "precipitation_in", "windspeed_mph"} \subseteq DOMAIN r3
                 THEN LET sc == WeatherImpactScore(r3.temperature_f,
                                                   r3.precipitation_in, r3.windspeed_mph)
                      IN  ("weather_impact_score" :> sc)
                          @@ ("weather_condition" :> WeatherCondition(sc))
                 ELSE <<>>
    IN  score @@ r3

\* mutant: the converted value is written over the raw column as well
Mut_AddDerivedFeaturesInPlace(df) ==
    IF "date" \notin df.cols THEN df
    ELSE LET rows == [i \in 1..Len(df.rows) |->
                        LET d == DerivedRow(df.cols, df.rows[i])
                        IN  IF "temperature_mean" \in df.cols
                            THEN [d EXCEPT !.temperature_mean = d.temperature_f]
                            ELSE d]
         IN  Frame(IF rows = <<>> THEN df.cols ELSE DOMAIN rows[1], rows)

\* the columns of the table add_derived_features returns for a table with
\* the columns `cols`, date among them (they are assigned whether or not
\* the table has rows)
DerivedColumns(cols) ==
    LET c1 == cols \cup {"day_of_week", "is_weekend", "is_weekday"}
                 \cup (IF "temperature_mean" \in cols THEN {"temperature_f"} ELSE {})
                 \cup (IF "precipitation" \in cols THEN {"precipitation_in"} ELSE {})
                 \cup (IF "windspeed" \in cols THEN {"windspeed_mph"} ELSE {})
        c2 == c1 \cup (IF "temperature_f" \in c1 THEN {"temp_category"} ELSE {})
                 \cup (IF "precipitation_in" \in c1
                       THEN {"rain_category", "is_rainy"} ELSE {})
    IN  c2 \cup (IF {"temperature_f", "precipitation_in", "windspeed_mph"} \subseteq c2
                 THEN {"weather_impact_score", "weather_condition"} ELSE {})

\* add_derived_features(df)
AddDerivedFeatures(df) ==
    IF "date" \notin df.cols THEN df
    ELSE Frame(DerivedColumns(df.cols),
               [i \in 1..Len(df.rows) |-> DerivedRow(df.cols, df.rows[i])])

\* ------------------------------------------------------------------------
\* transform_and_merge (lines 241-308)
\* ------------------------------------------------------------------------
\* mutant: the time of day is kept
Mut_ToDateKeepsTime(tick) == tick

\* pd.to_datetime(date).dt.date: the calendar day of a timestamp
ToDate(tick) == tick \div TicksPerDay

\* pd.to_datetime(day): midnight of a calendar day
Midnight(day) == day * TicksPerDay

\* df['date'] = pd.to_datetime(df['date']).dt.date
Standardize(rows) == [i \in 1..Len(rows) |-> [rows[i] EXCEPT !.date = ToDate(@)]]

\* pd.merge(left, right, on='date', how='inner'): every pair of a left and a
\* right row of equal date, in the order of the left rows, then of the right.
\* (No column but date is common to the modelled tables, so no suffix shows.)
RECURSIVE InnerMerge(_, _)
InnerMerge(left, right) ==
    IF left = <<>> THEN <<>>
    ELSE LET l == left[Len(left)]
             hits == SelectSeq(right, LAMBDA r : r.date = l.date)
         IN  InnerMerge(SubSeq(left, 1, Len(left) - 1), right)
                \o [i \in 1..Len(hits) |-> l @@ hits[i]]

\* series.rolling(window, min_periods=1).mean() at position i: the mean of
\* the values that are not NaN among the last `window` ones, as the pair
\* sum / count (count 0: NaN)
RECURSIVE SumOf(_)
SumOf(xs) == IF xs = <<>> THEN 0 ELSE xs[1] + SumOf(Tail(xs))

\* mutant: the window reaches one row further back
Mut_RollingMeanOneMore(rows, i, window) ==
    LET from == Max(1, i - window)
        vals == SelectSeq([k \in 1..(i - from + 1) |-> rows[from + k - 1].ridership],
                          LAMBDA x : ~IsNull(x))
    IN  [sum |-> SumOf(vals), count |-> Len(vals)]

RollingMean(rows, i, window) ==
    LET from == Max(1, i - window + 1)
        vals == SelectSeq([k \in 1..(i - from + 1) |-> rows[from + k - 1].ridership],
                          LAMBDA x : ~IsNull(x))
    IN  [sum |-> SumOf(vals), count |-> Len(vals)]

\* lines 286-289
WithRollingAverages(df) ==
    IF "ridership" \notin df.cols THEN df
    ELSE LET sorted == SortByDate(df.rows)
         IN  Frame(df.cols \cup {"ridership_7day_avg", "ridership_30day_avg"},
                   [i \in 1..Len(sorted) |->
                       [ridership_7day_avg |-> RollingMean(sorted, i, 7),
                        ridership_30day_avg |-> RollingMean(sorted, i, 30)]
                       @@ sorted[i]])

\* lines 262-308, for two cleaned tables that are not empty
MergeAndDerive(ridership_clean, weather_clean) ==
    LET merged == Frame(ridership_clean.cols \cup weather_clean.cols,
                        InnerMerge(Standardize(ridership_clean.rows),
                                   Standardize(weather_clean.rows)))
    IN  IF IsEmpty(merged) THEN [table |-> merged, derived |-> FALSE]
        ELSE LET dated == Frame(merged.cols,
                                [i \in 1..Len(merged.rows) |->
                                    [merged.rows[i] EXCEPT !.date = Midnight(@)]])
             IN  [table |-> WithRollingAverages(AddDerivedFeatures(dated)),
                  derived |-> TRUE]

\* mutant: a dataset that has a report already is not cleaned again
Mut_TransformAndMergeSkipsKnown(metrics, ridership_df, weather_df) ==
    LET rv == ValidateDataQuality(ridership_df, "ridership")
        m1 == Store(metrics, "ridership", rv)
        wv == ValidateDataQuality(weather_df, "weather")
        m2 == Store(m1, "weather", wv)
        none == [table |-> EmptyFrame, derived |-> FALSE]
        rt == IF "ridership" \in DOMAIN metrics THEN ridership_df ELSE rv.table
    IN  IF rv.kind = "raised" \/ wv.kind = "raised"
        THEN [kind |-> "raised", err |-> "KeyError", metrics |-> m2, result |-> none,
              cleaned |-> <<>>]
        ELSE IF IsEmpty(rt) \/ IsEmpty(wv.table)
        THEN [kind |-> "returned", err |-> "", metrics |-> m2, result |-> none,
              cleaned |-> <<rt, wv.table>>]
        ELSE [kind |-> "returned", err |-> "", metrics |-> m2,
              result |-> MergeAndDerive(rt, wv.table),
              cleaned |-> <<rt, wv.table>>]

\* transform_and_merge(ridership_df, weather_df) on the metrics `metrics`:
\* what it returns or raises, the metrics it leaves, the cleaned tables it
\* went through and whether add_derived_features was applied
TransformAndMerge(metrics, ridership_df, weather_df) ==
    LET rv == ValidateDataQuality(ridership_df, "ridership")
        m1 == Store(metrics, "ridership", rv)
        wv == ValidateDataQuality(weather_df, "weather")
        m2 == Store(m1, "weather", wv)
        none == [table |-> EmptyFrame, derived |-> FALSE]
    IN  IF rv.kind = "raised"
        THEN [kind |-> "raised", err |-> rv.err, metrics |-> m1, result |-> none,
              cleaned |-> <<>>]
        ELSE IF wv.kind = "raised"
        THEN [kind |-> "raised", err |-> wv.err, metrics |-> m2, result |-> none,
              cleaned |-> <<rv.table>>]
        ELSE IF IsEmpty(rv.table) \/ IsEmpty(wv.table)
        THEN [kind |-> "returned", err |-> "", metrics |-> m2, result |-> none,
              cleaned |-> <<rv.table, wv.table>>]
        ELSE [kind |-> "returned", err |-> "", metrics |-> m2,
              result |-> MergeAndDerive(rv.table, wv.table),
              cleaned |-> <<rv.table, wv.table>>]


\* ------------------------------------------------------------------------
\* The tables the transformer is called with
\* ------------------------------------------------------------------------
SeqsUpTo(S, n) == UNION {[1..k -> S] : k \in 0..n}

RidershipCols == {"date", "ridership"}
WeatherCols == {"date", "temperature_mean", "precipitation", "windspeed"}

\* ridership rows: day 1 at midday, day 2 at midnight, day 3 at 23:59:59
\* with no count, and one without a date
RidershipMenu ==
    {[date |-> 1 * TicksPerDay + 1, ridership |-> 5],
     [date |-> 2 * TicksPerDay, ridership |-> 7],
     [date |-> 3 * TicksPerDay + (TicksPerDay - 1), ridership |-> NaN],
     [date |-> NaT, ridership |-> 5]}

\* weather rows for the days 2, 3 and 4, and one without a date
WeatherMenu ==
    {[date |-> 2 * TicksPerDay, temperature_mean |-> 0, precipitation |-> 0,
      windspeed |-> 50],
     [date |-> 3 * TicksPerDay, temperature_mean |-> NaN, precipitation |-> 127,
      windspeed |-> 120],
     [date |-> 4 * TicksPerDay, temperature_mean |-> 100, precipitation |-> 30,
      windspeed |-> 10],
     [date |-> NaT, temperature_mean |-> 200, precipitation |-> 0, windspeed |-> 0]}

\* a table of one row that has no date column
RidershipWithoutDate == Frame({"ridership"}, <<[ridership |-> 5]>>)
WeatherWithoutDate == Frame({"temperature_mean"}, <<[temperature_mean |-> 100]>>)

RidershipTables ==
    {Frame(RidershipCols, rows) : rows \in SeqsUpTo(RidershipMenu, MaxRows)}
        \cup {EmptyFrame, RidershipWithoutDate}

WeatherTables ==
    {Frame(WeatherCols, rows) : rows \in SeqsUpTo(WeatherMenu, MaxRows)}
        \cup {EmptyFrame, WeatherWithoutDate}

DatasetNames == {"ridership", "weather", "stations"}

\* the row counts of the tables of SpecScore
ScoreRows == (1..MaxSmallTable) \cup {LargeTable}

NoCall == [op |-> "none"]

NoResult == [kind |-> "none", table |-> EmptyFrame, err |-> "",
             derived |-> FALSE, cleaned |-> <<>>]

TransformInit ==
    /\ quality_metrics = <<>>
    /\ t_pc = "idle"
    /\ t_call = NoCall
    /\ t_out = NoResult

\* app.py before load_data is called: no cache file
NoFile == [exists |-> FALSE, table |-> EmptyFrame]

NoLocals == [merged_df |-> EmptyFrame, quality_report |-> <<>>,
             ridership_df |-> EmptyFrame, weather_df |-> EmptyFrame,
             found |-> NoFile, removed |-> FALSE, extractions |-> 0,
             transformed |-> FALSE]

NoLoad == [kind |-> "none", table |-> EmptyFrame, quality_report |-> <<>>,
           err |-> ""]

AppInit ==
    /\ cache_file = NoFile
    /\ ld_pc = "idle"
    /\ ld = NoLocals
    /\ ld_out = NoLoad

\* ETLPipeline.__init__, lines 34-44 (the time stamps left out)
NewPipelineMetrics ==
    [status |-> "NOT_STARTED", records_processed |-> 0, errors |-> <<>>]

NoRun == [save_to_db |-> FALSE, ridership_df |-> EmptyFrame,
          weather_df |-> EmptyFrame, merged_df |-> EmptyFrame,
          weather_raised |-> FALSE, transformed |-> FALSE]

NoReturn == [status |-> "none", error |-> "", data |-> EmptyFrame]

PipelineInit ==
    /\ pipeline_metrics = NewPipelineMetrics
    /\ run_pc = "idle"
    /\ run = NoRun
    /\ loaded = <<>>
    /\ run_out = NoReturn

Init == ExtractInit /\ TransformInit /\ AppInit /\ PipelineInit

\* a caller validates one table under one name
CallValidate ==
    /\ t_pc = "idle"
    /\ \E df \in RidershipTables \cup WeatherTables, name \in DatasetNames :
          LET v == ValidateDataQuality(df, name)
          IN  /\ quality_metrics' = Store(quality_metrics, name, v)
              /\ t_call' = [op |-> "validate", df |-> df, name |-> name]
              /\ t_out' = [kind |-> v.kind, table |-> v.table, err |-> v.err,
                           derived |-> FALSE, cleaned |-> <<>>]
    /\ t_pc' = "done"
    /\ UNCHANGED <<extract_vars, driver_vars>>

\* a caller merges a ridership table and a weather table
CallTransformAndMerge ==
    /\ t_pc = "idle"
    /\ \E r \in RidershipTables, w \in WeatherTables :
          LET tm == TransformAndMerge(quality_metrics, r, w)
          IN  /\ quality_metrics' = tm.metrics
              /\ t_call' = [op |-> "transform_and_merge", ridership_df |-> r,
                            weather_df |-> w]
              /\ t_out' = [kind |-> tm.kind, table |-> tm.result.table,
                           err |-> tm.err, derived |-> tm.result.derived,
                           cleaned |-> tm.cleaned]
    /\ t_pc' = "done"
    /\ UNCHANGED <<extract_vars, driver_vars>>

\* validate_data_quality on a table with a date column of which only the row
\* counts are given: initial_rows rows, final_rows of them left by steps 4, 5
CallValidateSized ==
    /\ t_pc = "idle"
    /\ \E initial_rows \in ScoreRows :
          \E final_rows \in 0..initial_rows :
              /\ quality_metrics' =
                    Put(quality_metrics, "ridership",
                        CloseReport([dataset |-> "ridership",
                                     initial_rows |-> initial_rows],
                                    final_rows, initial_rows))
              /\ t_call' = [op |-> "sized", name |-> "ridership",
                            initial_rows |-> initial_rows,
                            final_rows |-> final_rows]
    /\ t_out' = [NoResult EXCEPT !.kind = "returned"]
    /\ t_pc' = "done"
    /\ UNCHANGED <<extract_vars, driver_vars>>

TransformNext ==
    \/ CallValidate
    \/ CallTransformAndMerge

ScoreNext == CallValidateSized

SpecExtract == Init /\ [][ExtractNext]_vars

SpecTransform == Init /\ [][TransformNext]_vars

SpecScore == Init /\ [][ScoreNext]_vars


\* ------------------------------------------------------------------------
\* Properties of the transformer (checked under SpecTransform, SpecScore)
\* ------------------------------------------------------------------------
\* the calendar day a tick lies in
DayOf(tick) ==
    CHOOSE d \in 0..tick : d * TicksPerDay <= tick /\ tick < (d + 1) * TicksPerDay

DaysOf(rows) == {DayOf(rows[i].date) : i \in 1..Len(rows)}

Merged == t_call.op = "transform_and_merge"

\* the call reached the merge: both cleaned tables exist and have rows
MergeReached ==
    /\ Merged
    /\ t_out.kind = "returned"
    /\ Len(t_out.cleaned) = 2
    /\ ~IsEmpty(t_out.cleaned[1])
    /\ ~IsEmpty(t_out.cleaned[2])

\* C6: transform_and_merge joins on the calendar day, the time of day
\* ignored: the days of the merged table are the days the two cleaned tables
\* share, a cleaned ridership row appears in the merged table if and only if
\* some cleaned weather row has its day, and it appears once per such row.
ThmC6_JoinOnCalendarDay ==
    MergeReached =>
        LET R == t_out.cleaned[1].rows
            W == t_out.cleaned[2].rows
            M == t_out.table.rows
        IN  /\ DaysOf(M) = DaysOf(R) \cap DaysOf(W)
            /\ \A i \in 1..Len(R) :
                  (\E k \in 1..Len(M) : /\ DayOf(M[k].date) = DayOf(R[i].date)
                                        /\ M[k].ridership = R[i].ridership)
                     <=> DayOf(R[i].date) \in DaysOf(W)
            /\ Len(M) = Cardinality({<<i, j>> \in (1..Len(R)) \X (1..Len(W)) :
                                        DayOf(R[i].date) = DayOf(W[j].date)})

\* ridership on the days 1, 2, 3 (day 3 late in the evening), weather on the
\* days 2, 3, 4: the merged table has the days 2 and 3
WitC6_DaysTwoAndThree ==
    /\ MergeReached
    /\ DaysOf(t_out.cleaned[1].rows) = {1, 2, 3}
    /\ DaysOf(t_out.cleaned[2].rows) = {2, 3, 4}
    /\ DaysOf(t_out.table.rows) = {2, 3}
    /\ \E i \in 1..Len(t_out.cleaned[1].rows) :
          t_out.cleaned[1].rows[i].date = 3 * TicksPerDay + (TicksPerDay - 1)

\* the cleaned tables of the call share no calendar day
NoSharedDay ==
    /\ Len(t_out.cleaned) = 2
    /\ DaysOf(t_out.cleaned[1].rows) \cap DaysOf(t_out.cleaned[2].rows) = {}

\* C7: transform_and_merge does not raise for lack of data: when a cleaned
\* input table is empty, or the two share no calendar day, it returns an
\* empty table and add_derived_features is not applied.
OrigC7_NoDataNeverRaises ==
    (/\ Merged
     /\ \/ \E i \in 1..Len(t_out.cleaned) : IsEmpty(t_out.cleaned[i])
        \/ NoSharedDay) =>
        /\ t_out.kind = "returned"
        /\ IsEmpty(t_out.table)
        /\ ~t_out.derived

\* C7, restricted to calls in which no table lacks its date column
AuxC7_WithDateColumns ==
    (/\ Merged
     /\ IsEmpty(t_call.ridership_df) \/ "date" \in t_call.ridership_df.cols
     /\ IsEmpty(t_call.weather_df) \/ "date" \in t_call.weather_df.cols) =>
        /\ t_out.kind = "returned"
        /\ Len(t_out.cleaned) = 2
        /\ (IsEmpty(t_out.cleaned[1]) \/ IsEmpty(t_out.cleaned[2]) \/ NoSharedDay) =>
              IsEmpty(t_out.table) /\ ~t_out.derived

Sized == t_call.op = "sized"

\* C8 as stated: the stored quality_score is 100 * final_rows / initial_rows
\* exactly, and the stored status is PASSED if and only if the stored
\* quality_score is at least 90.  (quality_score is held in hundredths.)
OrigC8_ScoreExact ==
    Sized =>
        LET report == quality_metrics[t_call.name]
        IN  /\ report.quality_score * t_call.initial_rows = 10000 * t_call.final_rows
            /\ report.status = "PASSED" <=> report.quality_score >= 9000

\* C8 as amended: the stored quality_score is 100 * final_rows /
\* initial_rows rounded to two decimals (it is within half a hundredth of
\* the ratio), initial_rows being the row count of the table passed in, and
\* the stored status is PASSED if and only if the unrounded ratio
\* 100 * final_rows / initial_rows is at least 90, otherwise WARNING.
ThmC8_ScoreRounded ==
    Sized =>
        LET report == quality_metrics[t_call.name]
        IN  /\ report.initial_rows = t_call.initial_rows
            /\ report.final_rows = t_call.final_rows
            /\ 2 * Abs(report.quality_score * t_call.initial_rows
                         - 10000 * t_call.final_rows) <= t_call.initial_rows
            /\ report.status \in {"PASSED", "WARNING"}
            /\ report.status = "PASSED" <=>
                  100 * t_call.final_rows >= 90 * t_call.initial_rows

\* 1808 rows left of 2009: the ratio 89.995... is stored as 90.0 and the
\* status is WARNING
WitC8_NinetyButWarning ==
    /\ Sized
    /\ t_call.initial_rows = 2009
    /\ t_call.final_rows = 1808
    /\ quality_metrics[t_call.name].quality_score = 9000
    /\ quality_metrics[t_call.name].status = "WARNING"

Validated == t_call.op = "validate"

\* C9: validate_data_quality does not raise on a data-quality problem: for a
\* non-empty table, with or without the date column, it returns a table and
\* the report under dataset_name records the problem (a missing date column
\* under missing_columns).
OrigC9_ValidateNeverRaises ==
    (Validated /\ ~IsEmpty(t_call.df)) =>
        /\ t_out.kind = "returned"
        /\ t_call.name \in DOMAIN quality_metrics
        /\ "date" \notin t_call.df.cols =>
              /\ "missing_columns" \in DOMAIN quality_metrics[t_call.name]
              /\ quality_metrics[t_call.name].missing_columns = {"date"}

\* C10: validate_data_quality on an empty table stores under dataset_name a
\* report of status 'FAILED - Empty dataset', returns the table it was given
\* and runs none of the later checks: the report holds the dataset name, the
\* initial row count and the status, and nothing else.
ThmC10_EmptyTableFailed ==
    (Validated /\ IsEmpty(t_call.df)) =>
        /\ t_out.kind = "returned"
        /\ t_out.table = t_call.df
        /\ t_call.name \in DOMAIN quality_metrics
        /\ LET report == quality_metrics[t_call.name]
           IN  /\ DOMAIN report = {"dataset", "initial_rows", "status"}
               /\ report.status = "FAILED - Empty dataset"
               /\ report.dataset = t_call.name
               /\ report.initial_rows = 0

\* a weather table with its columns and no rows was validated
WitC10_EmptyWeatherTable ==
    /\ Validated
    /\ t_call.name = "weather"
    /\ t_call.df = Frame(WeatherCols, <<>>)
    /\ t_out.kind = "returned"
    /\ t_out.table = t_call.df
    /\ quality_metrics["weather"].status = "FAILED - Empty dataset"


\* ------------------------------------------------------------------------
\* One DataTransformer called again and again (SpecReports)
\* ------------------------------------------------------------------------
\* the tables of the repeated calls: none, one row, a row twice, a row
\* without a date before a good one
RepeatRidershipTables ==
    {EmptyFrame,
     Frame(RidershipCols, <<[date |-> 2 * TicksPerDay, ridership |-> 7]>>),
     Frame(RidershipCols, <<[date |-> 2 * TicksPerDay, ridership |-> 7],
                            [date |-> 2 * TicksPerDay, ridership |-> 7]>>),
     Frame(RidershipCols, <<[date |-> NaT, ridership |-> 5],
                            [date |-> 1 * TicksPerDay + 1, ridership |-> 5]>>)}

RepeatWeatherTables ==
    {EmptyFrame,
     Frame(WeatherCols, <<[date |-> 2 * TicksPerDay, temperature_mean |-> 0,
                           precipitation |-> 0, windspeed |-> 50]>>),
     Frame(WeatherCols, <<[date |-> 4 * TicksPerDay, temperature_mean |-> 100,
                           precipitation |-> 30, windspeed |-> 10],
                          [date |-> 2 * TicksPerDay, temperature_mean |-> 0,
                           precipitation |-> 0, windspeed |-> 50]>>),
     WeatherWithoutDate}

\* validate_data_quality once more on the same DataTransformer
ValidateAgain ==
    /\ \E df \in RepeatRidershipTables \cup RepeatWeatherTables, name \in DatasetNames :
          LET v == ValidateDataQuality(df, name)
          IN  /\ quality_metrics' = Store(quality_metrics, name, v)
              /\ t_call' = [op |-> "validate", df |-> df, name |-> name]
              /\ t_out' = [kind |-> v.kind, table |-> v.table, err |-> v.err,
                           derived |-> FALSE, cleaned |-> <<>>]
    /\ t_pc' = "done"
    /\ UNCHANGED <<extract_vars, driver_vars>>

\* transform_and_merge once more on the same DataTransformer
TransformAndMergeAgain ==
    /\ \E r \in RepeatRidershipTables, w \in RepeatWeatherTables :
          LET tm == TransformAndMerge(quality_metrics, r, w)
          IN  /\ quality_metrics' = tm.metrics
              /\ t_call' = [op |-> "transform_and_merge", ridership_df |-> r,
                            weather_df |-> w]
              /\ t_out' = [kind |-> tm.kind, table |-> tm.result.table,
                           err |-> tm.err, derived |-> tm.result.derived,
                           cleaned |-> tm.cleaned]
    /\ t_pc' = "done"
    /\ UNCHANGED <<extract_vars, driver_vars>>

ReportsNext ==
    \/ ValidateAgain
    \/ TransformAndMergeAgain

SpecReports == Init /\ [][ReportsNext]_vars

\* get_quality_report()
GetQualityReport == quality_metrics

\* the report `report` describes the table df validated under `name`, of
\* which `cleaned` was returned
Describes(report, name, df, cleaned) ==
    /\ report.dataset = name
    /\ report.initial_rows = Len(df.rows)
    /\ IF IsEmpty(df)
       THEN report.status = "FAILED - Empty dataset"
       ELSE /\ report.final_rows = Len(cleaned.rows)
            /\ report.rows_removed = Len(df.rows) - Len(cleaned.rows)

\* the entries of the names other than those of `names` are as they were
OthersKept(names) ==
    \A n \in DOMAIN quality_metrics \ names :
        /\ n \in DOMAIN quality_metrics'
        /\ quality_metrics'[n] = quality_metrics[n]

\* C11: reports accumulate keyed by dataset name.  Every step that is a
\* returned call of transform_and_merge leaves in get_quality_report an
\* entry for 'ridership' and one for 'weather' that describe the tables of
\* that call, and leaves the entries of other names as they were; every step
\* that validates one dataset name leaves the entry of every other name as
\* it was.
ThmC11_ReportsAccumulate ==
    [][/\ (t_call'.op = "transform_and_merge" /\ t_out'.kind = "returned") =>
            /\ {"ridership", "weather"} \subseteq DOMAIN quality_metrics'
            /\ Describes(quality_metrics'["ridership"], "ridership",
                         t_call'.ridership_df, t_out'.cleaned[1])
            /\ Describes(quality_metrics'["weather"], "weather",
                         t_call'.weather_df, t_out'.cleaned[2])
            /\ OthersKept({"ridership", "weather"})
       /\ t_call'.op = "validate" => OthersKept({t_call'.name})
      ]_vars

\* a call of transform_and_merge has returned on a DataTransformer that
\* holds a report for 'stations' from an earlier validation; the ridership
\* table of the call had a row twice
WitC11_ThreeEntries ==
    /\ Merged
    /\ t_out.kind = "returned"
    /\ DOMAIN GetQualityReport = {"ridership", "weather", "stations"}
    /\ GetQualityReport["stations"].dataset = "stations"
    /\ Len(t_call.ridership_df.rows) = 2
    /\ GetQualityReport["ridership"].initial_rows = 2
    /\ GetQualityReport["ridership"].final_rows = 1
    /\ GetQualityReport["weather"].initial_rows = Len(t_call.weather_df.rows)

\* ------------------------------------------------------------------------
\* load_data (app.py 20-77)
\* ------------------------------------------------------------------------
AppDays == 3

\* what fetch_ridership_data returns for the rows it collected (lines 113-133)
ExtractedRidership(data) == IF data = <<>> THEN EmptyFrame ELSE PostProcess(data)

\* the tables fetch_ridership_data may hand to load_data: nothing, or the
\* newest records of the range
AppRidership ==
    {ExtractedRidership(Batch(0, AppDays - 1, n, v)) : n \in 0..AppDays, v \in 1..2}

\* the tables fetch_weather_data may hand to load_data: the days of the
\* range, its first day only, or no day
AppWeather ==
    {Reshape(p) : p \in WeatherPayloads(AppDays) \cup WeatherPayloads(1)}

\* a table with the columns `drop` taken out
Without(df, drop) ==
    Frame(df.cols \ drop,
          [i \in 1..Len(df.rows) |-> [c \in (DOMAIN df.rows[i]) \ drop |-> df.rows[i][c]]])

\* a merged table as transform_and_merge builds it
SampleMerged ==
    MergeAndDerive(ExtractedRidership(Batch(0, AppDays - 1, 2, 1)),
                   Reshape(<<Daily(AppDays, 1)>>)).table

\* the cache files load_data may find: a table with both converted columns,
\* one written before precipitation_in (or temperature_f, or both) was
\* derived, and a table without columns
CacheMenu ==
    {SampleMerged,
     Without(SampleMerged, {"precipitation_in", "rain_category", "is_rainy",
                            "weather_impact_score", "weather_condition"}),
     Without(SampleMerged, {"temperature_f", "temp_category",
                            "weather_impact_score", "weather_condition"}),
     Without(SampleMerged, {"temperature_f", "temp_category", "precipitation_in",
                            "rain_category", "is_rainy", "windspeed_mph",
                            "weather_impact_score", "weather_condition"}),
     EmptyFrame}

\* mutant: reprocess only when both converted columns are missing
Mut_NeedsReprocessBoth(df) ==
    "temperature_f" \notin df.cols /\ "precipitation_in" \notin df.cols

\* lines 32-37: needs_reprocess
NeedsReprocess(df) ==
    "temperature_f" \notin df.cols \/ "precipitation_in" \notin df.cols

\* an earlier session left a cache file
PlaceCacheFile ==
    /\ ld_pc = "idle"
    /\ ~cache_file.exists
    /\ \E t \in CacheMenu : cache_file' = [exists |-> TRUE, table |-> t]
    /\ UNCHANGED <<ld_pc, ld, ld_out>>
    /\ UNCHANGED <<extract_vars, transform_vars, pipeline_vars>>

\* lines 22-44: the cache is read, and removed if a converted column is missing
CallLoadData ==
    /\ ld_pc \in {"idle", "returned", "raised"}
    /\ LET needs_reprocess == cache_file.exists /\ NeedsReprocess(cache_file.table)
       IN  /\ cache_file' = IF needs_reprocess THEN NoFile ELSE cache_file
           /\ ld' = [NoLocals EXCEPT !.merged_df = cache_file.table,
                                     !.found = cache_file,
                                     !.removed = needs_reprocess]
           /\ ld_pc' = IF cache_file.exists /\ ~needs_reprocess
                       THEN "precompute" ELSE "fetch_ridership"
    /\ ld_out' = NoLoad
    /\ UNCHANGED <<extract_vars, transform_vars, pipeline_vars>>

\* lines 47-51
LoadFetchRidership ==
    /\ ld_pc = "fetch_ridership"
    /\ \E t \in AppRidership :
          ld' = [ld EXCEPT !.ridership_df = t, !.extractions = @ + 1]
    /\ ld_pc' = "fetch_weather"
    /\ UNCHANGED <<cache_file, ld_out>>
    /\ UNCHANGED <<extract_vars, transform_vars, pipeline_vars>>

\* lines 52-55, fetch_weather_data returning
LoadFetchWeather ==
    /\ ld_pc = "fetch_weather"
    /\ \E t \in AppWeather :
          ld' = [ld EXCEPT !.weather_df = t, !.extractions = @ + 1]
    /\ ld_pc' = "transform"
    /\ UNCHANGED <<cache_file, ld_out>>
    /\ UNCHANGED <<extract_vars, transform_vars, pipeline_vars>>

\* lines 52-55, fetch_weather_data raising: load_data ends with it
LoadWeatherFailed ==
    /\ ld_pc = "fetch_weather"
    /\ \E e \in Errors : ld_out' = [NoLoad EXCEPT !.kind = "raised", !.err = e]
    /\ ld' = [ld EXCEPT !.extractions = @ + 1]
    /\ ld_pc' = "raised"
    /\ UNCHANGED cache_file
    /\ UNCHANGED <<extract_vars, transform_vars, pipeline_vars>>

\* lines 58-62: transform_and_merge on a new DataTransformer, and the result
\* written to the cache file
LoadTransform ==
    /\ ld_pc = "transform"
    /\ LET tm == TransformAndMerge(<<>>, ld.ridership_df, ld.weather_df)
       IN  IF tm.kind = "raised"
           THEN /\ ld_out' = [NoLoad EXCEPT !.kind = "raised", !.err = tm.err]
                /\ ld' = [ld EXCEPT !.transformed = TRUE]
                /\ ld_pc' = "raised"
                /\ UNCHANGED cache_file
           ELSE /\ cache_file' = [exists |-> TRUE, table |-> tm.result.table]
                /\ ld' = [ld EXCEPT !.merged_df = tm.result.table,
                                    !.quality_report = tm.metrics,
                                    !.transformed = TRUE]
                /\ ld_pc' = "precompute"
                /\ UNCHANGED ld_out
    /\ UNCHANGED <<extract_vars, transform_vars, pipeline_vars>>

\* lines 71-77: merged_df["ridership"] and merged_df["date"] raise KeyError
\* on a table without the column, .dt raises AttributeError on a date column
\* that holds no timestamps; otherwise the table is returned.  (The columns
\* year, month, month_name, day_name it gains are left out of the model.)
LoadPrecompute ==
    /\ ld_pc = "precompute"
    /\ LET df == ld.merged_df
           err == IF "ridership" \notin df.cols \/ "date" \notin df.cols
                  THEN "KeyError"
                  ELSE IF df.rows = <<>> THEN "AttributeError"
                  ELSE ""
       IN  IF err # ""
           THEN /\ ld_out' = [NoLoad EXCEPT !.kind = "raised", !.err = err]
                /\ ld_pc' = "raised"
           ELSE /\ ld_out' = [kind |-> "returned", table |-> df,
                              quality_report |-> ld.quality_report, err |-> ""]
                /\ ld_pc' = "returned"
    /\ UNCHANGED <<cache_file, ld>>
    /\ UNCHANGED <<extract_vars, transform_vars, pipeline_vars>>

AppNext ==
    \/ PlaceCacheFile
    \/ CallLoadData
    \/ LoadFetchRidership
    \/ LoadFetchWeather
    \/ LoadWeatherFailed
    \/ LoadTransform
    \/ LoadPrecompute

SpecApp == Init /\ [][AppNext]_vars

\* load_data has ended, having found a cache file without temperature_f or
\* without precipitation_in
StaleCacheRun ==
    /\ ld_pc \in {"returned", "raised"}
    /\ ld.found.exists
    /\ NeedsReprocess(ld.found.table)

\* C12: when the cache file exists but its table lacks temperature_f or
\* precipitation_in, load_data discards the file, runs both extractions and
\* transform_and_merge, and (unless the weather extraction raised) returns
\* a table that contains precipitation_in and temperature_f and is the table
\* of the new cache file.
OrigC12_StaleCacheReprocessed ==
    (StaleCacheRun /\ ld.weather_df # EmptyFrame) =>
        /\ ld.removed
        /\ ld.extractions = 2
        /\ ld.transformed
        /\ ld_out.kind = "returned"
        /\ {"precipitation_in", "temperature_f"} \subseteq ld_out.table.cols
        /\ cache_file = [exists |-> TRUE, table |-> ld_out.table]

\* C12, for the runs in which the new merge has rows
AuxC12_WhenMergeHasRows ==
    (StaleCacheRun /\ ld.transformed /\ ~IsEmpty(ld.merged_df)) =>
        /\ ld.removed
        /\ ld.extractions = 2
        /\ ld_out.kind = "returned"
        /\ {"precipitation_in", "temperature_f"} \subseteq ld_out.table.cols
        /\ cache_file = [exists |-> TRUE, table |-> ld_out.table]

\* ------------------------------------------------------------------------
\* ETLPipeline.run (main_pipeline.py 46-271)
\* ------------------------------------------------------------------------
\* lines 249-271: the except branch for the exception `error`
RunFailed(metrics, error) ==
    /\ pipeline_metrics' = [metrics EXCEPT !.status = "FAILED",
                                           !.errors = <<error>>]
    /\ run_out' = [status |-> "FAILED", error |-> error, data |-> EmptyFrame]
    /\ run_pc' = "returned"

\* lines 63-84: run(save_to_db) is called on the pipeline object
CallRun ==
    /\ run_pc \in {"idle", "returned"}
    /\ \E save_to_db \in BOOLEAN : run' = [NoRun EXCEPT !.save_to_db = save_to_db]
    /\ pipeline_metrics' = [pipeline_metrics EXCEPT !.status = "RUNNING"]
    /\ run_pc' = "extract_ridership"
    /\ loaded' = <<>>
    /\ run_out' = NoReturn
    /\ UNCHANGED <<extract_vars, transform_vars, app_vars>>

\* mutant: the ridership table is not tested for emptiness
Mut_RunFetchRidershipUnchecked ==
    /\ run_pc = "extract_ridership"
    /\ \E t \in AppRidership : run' = [run EXCEPT !.ridership_df = t]
    /\ run_pc' = "extract_weather"
    /\ UNCHANGED <<pipeline_metrics, run_out>>
    /\ UNCHANGED loaded
    /\ UNCHANGED <<extract_vars, transform_vars, app_vars>>

\* lines 93-102
RunFetchRidership ==
    /\ run_pc = "extract_ridership"
    /\ \E t \in AppRidership :
          /\ run' = [run EXCEPT !.ridership_df = t]
          /\ IF IsEmpty(t)
             THEN RunFailed(pipeline_metrics, "No ridership data extracted")
             ELSE /\ run_pc' = "extract_weather"
                  /\ UNCHANGED <<pipeline_metrics, run_out>>
    /\ UNCHANGED loaded
    /\ UNCHANGED <<extract_vars, transform_vars, app_vars>>

\* lines 104-119, fetch_weather_data returning
RunFetchWeather ==
    /\ run_pc = "extract_weather"
    /\ \E t \in AppWeather :
          /\ run' = [run EXCEPT !.weather_df = t]
          /\ IF IsEmpty(t)
             THEN RunFailed(pipeline_metrics, "No weather data extracted")
             ELSE /\ pipeline_metrics' =
                        Put(pipeline_metrics, "extraction",
                            [ridership_records |-> Len(run.ridership_df.rows),
                             weather_records |-> Len(t.rows)])
                  /\ run_pc' = "transform"
                  /\ UNCHANGED run_out
    /\ UNCHANGED loaded
    /\ UNCHANGED <<extract_vars, transform_vars, app_vars>>

\* lines 105-108, fetch_weather_data raising
RunWeatherFailed ==
    /\ run_pc = "extract_weather"
    /\ \E e \in Errors : RunFailed(pipeline_metrics, e)
    /\ run' = [run EXCEPT !.weather_raised = TRUE]
    /\ UNCHANGED loaded
    /\ UNCHANGED <<extract_vars, transform_vars, app_vars>>

\* lines 129-146: transform_and_merge on self.transformer
RunTransform ==
    /\ run_pc = "transform"
    /\ LET tm == TransformAndMerge(quality_metrics, run.ridership_df, run.weather_df)
       IN  /\ quality_metrics' = tm.metrics
           /\ run' = [run EXCEPT !.merged_df = tm.result.table, !.transformed = TRUE]
           /\ IF tm.kind = "raised" THEN RunFailed(pipeline_metrics, tm.err)
              ELSE IF IsEmpty(tm.result.table)
              THEN RunFailed(pipeline_metrics, "Transformation resulted in empty dataset")
              ELSE /\ pipeline_metrics' =
                         Put(pipeline_metrics, "transformation",
                             [output_records |-> Len(tm.result.table.rows),
                              output_columns |-> Cardinality(tm.result.table.cols),
                              quality_metrics |-> tm.metrics])
                   /\ run_pc' = "load"
                   /\ UNCHANGED run_out
    /\ UNCHANGED loaded
    /\ UNCHANGED <<t_pc, t_call, t_out>>
    /\ UNCHANGED <<extract_vars, app_vars>>

\* the loading actions of lines 156-196, in order, for the given outcomes:
\* each entry names an action and tells whether it succeeded; `err` is the
\* exception that left the phase ("" if none)
Loading(save_to_db, csv_ok, summary_ok, s3_ok, s3_summary_ok, db_ok, backup_ok) ==
    LET csv == <<[action |-> "save_to_csv", ok |-> csv_ok]>>
        summary == <<[action |-> "save_to_csv summary", ok |-> summary_ok]>>
        s3 == <<[action |-> "upload_to_s3", ok |-> s3_ok]>>
              \o (IF s3_ok THEN <<[action |-> "upload_to_s3 summary",
                                   ok |-> s3_summary_ok]>>
                  ELSE <<>>)
        db == IF ~save_to_db THEN <<>>
              ELSE <<[action |-> "load_to_postgres", ok |-> db_ok]>>
                   \o (IF db_ok THEN <<>>
                       ELSE <<[action |-> "save_to_csv backup", ok |-> backup_ok]>>)
    IN  IF ~csv_ok THEN [done |-> csv, err |-> "OSError", db_success |-> FALSE]
        ELSE IF ~summary_ok
        THEN [done |-> csv \o summary, err |-> "OSError", db_success |-> FALSE]
        ELSE IF save_to_db /\ ~db_ok /\ ~backup_ok
        THEN [done |-> csv \o summary \o s3 \o db, err |-> "OSError",
              db_success |-> FALSE]
        ELSE [done |-> csv \o summary \o s3 \o db, err |-> "",
              db_success |-> save_to_db /\ db_ok]

\* lines 151-247: the loading phase and the final metrics
RunLoad ==
    /\ run_pc = "load"
    /\ \E csv_ok, summary_ok, s3_ok, s3_summary_ok, db_ok, backup_ok \in BOOLEAN :
          LET l == Loading(run.save_to_db, csv_ok, summary_ok, s3_ok,
                           s3_summary_ok, db_ok, backup_ok)
          IN  /\ loaded' = l.done
              /\ IF l.err # "" THEN RunFailed(pipeline_metrics, l.err)
                 ELSE /\ pipeline_metrics' =
                            [Put(pipeline_metrics, "loading",
                                 [database_success |-> l.db_success])
                                EXCEPT !.status = "SUCCESS",
                                       !.records_processed = Len(run.merged_df.rows)]
                      /\ run_out' = [status |-> "SUCCESS", error |-> "",
                                     data |-> run.merged_df]
                      /\ run_pc' = "returned"
    /\ UNCHANGED run
    /\ UNCHANGED <<extract_vars, transform_vars, app_vars>>

PipelineNext ==
    \/ CallRun
    \/ RunFetchRidership
    \/ RunFetchWeather
    \/ RunWeatherFailed
    \/ RunTransform
    \/ RunLoad

SpecPipeline == Init /\ [][PipelineNext]_vars

\* a source as a whole gave nothing: the ridership table is empty, or the
\* weather extraction raised, or the weather table is empty
SourceFailed ==
    \/ IsEmpty(run.ridership_df)
    \/ run.weather_raised
    \/ run_pc \in {"transform", "load", "returned"} /\ IsEmpty(run.weather_df)

\* C13: run halts on a whole-source failure.  Once the ridership table came
\* back empty, or the weather extraction raised or gave an empty table, the
\* run goes to no further phase and has returned FAILED, with
\* transform_and_merge not called and no loading action executed; and a run
\* whose merge came back empty has returned FAILED with no loading action
\* executed.
ThmC13_RunHaltsOnSourceFailure ==
    /\ (run_pc \notin {"idle", "extract_ridership"} /\ SourceFailed) =>
          /\ run_pc = "returned"
          /\ run_out.status = "FAILED"
          /\ pipeline_metrics.status = "FAILED"
          /\ ~run.transformed
          /\ loaded = <<>>
    /\ (run.transformed /\ IsEmpty(run.merged_df)) =>
          /\ run_pc = "returned"
          /\ run_out.status = "FAILED"
          /\ pipeline_metrics.status = "FAILED"
          /\ loaded = <<>>

\* a run in which the ridership extraction gave rows and the weather
\* extraction raised has returned FAILED
WitC13_WeatherRaisedRunFailed ==
    /\ run_pc = "returned"
    /\ ~IsEmpty(run.ridership_df)
    /\ run.weather_raised
    /\ run_out.status = "FAILED"
    /\ run_out.error \in Errors
    /\ ~run.transformed
    /\ loaded = <<>>

\* ------------------------------------------------------------------------
\* add_derived_features called on its own (SpecFeatures)
\* ------------------------------------------------------------------------
MaxFeatureRows == 1

\* temperature_mean in tenths of a degree Celsius: missing, -10.0, 0.0 (32 F),
\* 0.1, 10.0 (50 F), 18.3, 20.0 (68 F), 20.1, 29.4, 29.5, 40.0
TemperatureMenu == {NaN, -100, 0, 1, 100, 183, 200, 201, 294, 295, 400}

\* precipitation in tenths of a millimetre: missing, 0, 0.2, 0.3, 2.5, 2.6,
\* 12.7 (0.5 in), 12.8, 20.0
PrecipitationMenu == {NaN, 0, 2, 3, 25, 26, 127, 128, 200}

\* windspeed in tenths of a metre per second: missing, 0, 5.0, 11.1, 11.2, 30.0
WindspeedMenu == {NaN, 0, 50, 111, 112, 300}

\* temperature_f in 1/50 of a degree Fahrenheit, for tables that carry the
\* column already: 31.98, 32, 32.02, 50, 50.02, 68, 68.02, 85, 85.02, missing
FahrenheitMenu == {1599, 1600, 1601, 2500, 2501, 3400, 3401, 4250, 4251, NaN}

RawWeatherColumns == {"temperature_mean", "precipitation", "windspeed"}

\* the rows over the columns `cols` (date among them)
FeatureRows(cols) ==
    {[c \in cols |-> full[c]] :
        full \in [date : {2 * TicksPerDay},
                  temperature_mean : TemperatureMenu,
                  precipitation : PrecipitationMenu,
                  windspeed : WindspeedMenu,
                  temperature_f : FahrenheitMenu]}

\* the rows a table may hold after its first: a warm dry day, a cold wet one
FollowingRows(cols) ==
    {[c \in cols |-> full[c]] :
        full \in {[date |-> 3 * TicksPerDay, temperature_mean |-> 250,
                   precipitation |-> 0, windspeed |-> 20, temperature_f |-> 3850],
                  [date |-> 1 * TicksPerDay, temperature_mean |-> -20,
                   precipitation |-> 150, windspeed |-> 90, temperature_f |-> 1420]}}

\* the tables over the columns `cols`: no row, or a first row and up to
\* MaxFeatureRows - 1 following ones
FeatureTablesOver(cols) ==
    {Frame(cols, <<>>)}
      \cup {Frame(cols, <<first>> \o rest) :
                first \in FeatureRows(cols),
                rest \in SeqsUpTo(FollowingRows(cols), MaxFeatureRows - 1)}

\* the tables add_derived_features is called with: a date column and any
\* subset of the raw weather columns; a date column and a temperature_f
\* column; no date column
FeatureTables ==
    UNION {FeatureTablesOver({"date"} \cup raw) : raw \in SUBSET RawWeatherColumns}
      \cup FeatureTablesOver({"date", "temperature_f"})
      \cup {WeatherWithoutDate}

\* a caller applies add_derived_features to a table
CallAddDerivedFeatures ==
    /\ t_pc = "idle"
    /\ \E df \in FeatureTables :
          /\ t_call' = [op |-> "add_derived_features", df |-> df]
          /\ t_out' = [NoResult EXCEPT !.kind = "returned",
                                       !.table = AddDerivedFeatures(df),
                                       !.derived = TRUE]
    /\ t_pc' = "done"
    /\ UNCHANGED quality_metrics
    /\ UNCHANGED <<extract_vars, driver_vars>>

\* the caller applies add_derived_features to the table it got back
CallAddDerivedFeaturesAgain ==
    /\ t_pc = "done"
    /\ t_call.op = "add_derived_features"
    /\ t_call' = [op |-> "add_derived_features twice", df |-> t_call.df,
                  once |-> t_out.table]
    /\ t_out' = [t_out EXCEPT !.table = AddDerivedFeatures(t_out.table)]
    /\ UNCHANGED <<quality_metrics, t_pc>>
    /\ UNCHANGED <<extract_vars, driver_vars>>

FeaturesNext ==
    \/ CallAddDerivedFeatures
    \/ CallAddDerivedFeaturesAgain

SpecFeatures == Init /\ [][FeaturesNext]_vars

DerivedOnce == t_call.op = "add_derived_features"

DerivedTwice == t_call.op = "add_derived_features twice"

\* the table has rows, the three raw weather columns, and no missing value
HasAllRaw(df) ==
    /\ df.rows # <<>>
    /\ {"date"} \cup RawWeatherColumns \subseteq df.cols
    /\ \A i \in 1..Len(df.rows) : \A c \in RawWeatherColumns : ~IsNull(df.rows[i][c])

\* C14 as stated: applying add_derived_features twice double-converts: for a
\* table with the raw weather columns, the result of the second application
\* differs from the result of the first in temperature_f, precipitation_in
\* and windspeed_mph.
OrigC14_TwiceDoubleConverts ==
    (DerivedTwice /\ HasAllRaw(t_call.df)) =>
        \E i \in 1..Len(t_out.table.rows) :
            \/ t_out.table.rows[i].temperature_f # t_call.once.rows[i].temperature_f
            \/ t_out.table.rows[i].precipitation_in # t_call.once.rows[i].precipitation_in
            \/ t_out.table.rows[i].windspeed_mph # t_call.once.rows[i].windspeed_mph

\* C14 as amended: add_derived_features is idempotent.  The converted
\* columns are new columns computed from the raw columns, which are left as
\* they were, so the second application computes every column again from the
\* same raw values: add_derived_features(add_derived_features(t)) equals
\* add_derived_features(t), the raw columns of both equal those of t.
ThmC14_TwiceEqualsOnce ==
    DerivedTwice =>
        /\ t_out.table = t_call.once
        /\ \A i \in 1..Len(t_call.df.rows) : \A c \in t_call.df.cols :
              t_out.table.rows[i][c] = t_call.df.rows[i][c]

\* add_derived_features was applied twice to a row of 10.0 degrees Celsius,
\* 2.5 mm and 5.0 m/s: temperature_f is 50 degrees Fahrenheit still
WitC14_FiftyDegreesTwice ==
    /\ DerivedTwice
    /\ HasAllRaw(t_call.df)
    /\ t_call.df.rows[1].temperature_mean = 100
    /\ t_call.df.rows[1].precipitation = 25
    /\ t_call.df.rows[1].windspeed = 50
    /\ t_out.table.rows[1].temperature_f = 2500
    /\ t_out.table.rows[1].precipitation_in = 1250
    /\ t_out.table.rows[1].windspeed_mph = 111850

\* ------------------------------------------------------------------------
\* Extraction and transform_and_merge run twice on the same upstream
\* answers (SpecTwoRuns)
\* ------------------------------------------------------------------------
\* what the ridership endpoint answered in all, over the days 0..d-1: up to
\* MaxBatch records, one or two per tick (records of one tick share a date
\* and differ in ridership); two of the answers hold one record twice
RidershipAnswers ==
    UNION {{Batch(0, d - 1, n, v) : n \in 0..MaxBatch, v \in 1..2} : d \in 1..AppDays}
      \cup {Batch(0, 0, 1, 1) \o Batch(0, 0, 2, 1),
            Batch(0, AppDays - 1, 3, 2) \o Batch(0, AppDays - 1, 2, 2)}

WeatherAnswers == WeatherPayloads(AppDays) \cup WeatherPayloads(1)

\* fetch_ridership_data, fetch_weather_data and transform_and_merge on the
\* answers, the DataTransformer holding `metrics`
ExtractAndMerge(metrics, ridership_answer, weather_answer) ==
    TransformAndMerge(metrics, ExtractedRidership(ridership_answer),
                      Reshape(weather_answer))

\* the first run
FirstRun ==
    /\ t_pc = "idle"
    /\ \E a \in RidershipAnswers, w \in WeatherAnswers :
          LET tm == ExtractAndMerge(quality_metrics, a, w)
              result == [kind |-> tm.kind, table |-> tm.result.table, err |-> tm.err,
                         derived |-> tm.result.derived, cleaned |-> tm.cleaned]
          IN  /\ quality_metrics' = tm.metrics
              /\ t_call' = [op |-> "run", ridership_answer |-> a,
                            weather_answer |-> w, first |-> result]
              /\ t_out' = result
    /\ t_pc' = "done"
    /\ UNCHANGED <<extract_vars, driver_vars>>

\* the second run: the same answers, the same DataTransformer object
SecondRun ==
    /\ t_pc = "done"
    /\ t_call.op = "run"
    /\ LET tm == ExtractAndMerge(quality_metrics, t_call.ridership_answer,
                                 t_call.weather_answer)
       IN  /\ quality_metrics' = tm.metrics
           /\ t_out' = [kind |-> tm.kind, table |-> tm.result.table, err |-> tm.err,
                        derived |-> tm.result.derived, cleaned |-> tm.cleaned]
    /\ t_call' = [t_call EXCEPT !.op = "run again"]
    /\ UNCHANGED t_pc
    /\ UNCHANGED <<extract_vars, driver_vars>>

TwoRunsNext ==
    \/ FirstRun
    \/ SecondRun

SpecTwoRuns == Init /\ [][TwoRunsNext]_vars

RanTwice == t_call.op = "run again"

WithTemperature ==
    {i \in 1..Len(t_out.table.rows) :
        /\ "temperature_f" \in t_out.table.cols
        /\ ~IsNull(t_out.table.rows[i].temperature_f)}

\* C16: for every row with a temperature, temp_category is one of Freezing,
\* Cold, Mild, Warm, Hot and is fixed by temperature_f and the breakpoints
\* 32, 50, 68, 85 degrees Fahrenheit, a boundary value belonging to the
\* colder bucket: Freezing up to 32 inclusive, Cold above 32 up to 50
\* inclusive, Mild above 50 up to 68 inclusive, Warm above 68 up to 85
\* inclusive, Hot above 85.  (temperature_f is held in 1/50 of a degree.)
ThmC16_TempCategoryBuckets ==
    DerivedOnce =>
        \A i \in WithTemperature :
            LET f == t_out.table.rows[i].temperature_f
                category == t_out.table.rows[i].temp_category
            IN  /\ category \in {"Freezing", "Cold", "Mild", "Warm", "Hot"}
                /\ category = "Freezing" <=> f <= 32 * 50
                /\ category = "Cold" <=> (32 * 50 < f /\ f <= 50 * 50)
                /\ category = "Mild" <=> (50 * 50 < f /\ f <= 68 * 50)
                /\ category = "Warm" <=> (68 * 50 < f /\ f <= 85 * 50)
                /\ category = "Hot" <=> 85 * 50 < f

\* a row of 20.0 degrees Celsius was converted to exactly 68 degrees
\* Fahrenheit and put in the bucket Mild
WitC16_SixtyEightIsMild ==
    /\ DerivedOnce
    /\ "temperature_mean" \in t_call.df.cols
    /\ Len(t_out.table.rows) = 1
    /\ t_call.df.rows[1].temperature_mean = 200
    /\ t_out.table.rows[1].temperature_f = 68 * 50
    /\ t_out.table.rows[1].temp_category = "Mild"

\* the rows of the table add_derived_features returned that carry a score
WithScore ==
    {i \in 1..Len(t_out.table.rows) :
        /\ "weather_impact_score" \in t_out.table.cols
        /\ ~IsNull(t_out.table.rows[i].weather_impact_score)}

\* the value 1 of weather_impact_score, which is held in 1/476250000
ScoreOne == (127000 * 30 * 50 * 5) \div 2

\* C17: weather_impact_score is the sum of three clipped terms,
\* 0.4 * clip(|temperature_f - 65| / 30, 0, 1) + 0.4 * clip(precipitation_in
\* / 0.5, 0, 1) + 0.2 * clip(windspeed_mph / 25, 0, 1), so that for every
\* row the score lies within 0 and 1.
OrigC17_ScoreWithinUnit ==
    DerivedOnce =>
        \A i \in WithScore :
            LET r == t_out.table.rows[i]
            IN  /\ r.weather_impact_score =
                      127000 * Clip(Abs(r.temperature_f - 65 * 50), 0, 30 * 50)
                        + 30000 * Clip(r.precipitation_in, 0, 6350)
                        + 381 * Clip(r.windspeed_mph, 0, 250000)
                /\ 0 <= r.weather_impact_score
                /\ r.weather_impact_score <= ScoreOne

\* C17, for the rows whose temperature is within 30 degrees of 65
AuxC17_WithinUnitNearSixtyFive ==
    DerivedOnce =>
        \A i \in WithScore :
            LET r == t_out.table.rows[i]
            IN  Abs(r.temperature_f - 65 * 50) <= 30 * 50 =>
                    /\ 0 <= r.weather_impact_score
                    /\ r.weather_impact_score <= ScoreOne

\* ------------------------------------------------------------------------
\* transform_and_merge on a longer series (SpecSeries)
\* ------------------------------------------------------------------------
MaxSeriesRows == 10

SeriesOrders == {"ascending", "descending", "pairs descending"}

\* the day of the i-th of n ridership rows
SeriesDay(order, n, i) ==
    CASE order = "ascending" -> i - 1
      [] order = "descending" -> n - i
      [] order = "pairs descending" -> (n - i) \div 2

\* the ridership of the i-th row; in the patterns with a hole one row has none
SeriesValue(k, c, hole, i) ==
    IF hole /\ i = c + 2 THEN NaN ELSE (k * i + c) % 11

\* a ridership table of n rows
SeriesTable(order, n, k, c, hole) ==
    Frame(RidershipCols,
          [i \in 1..n |->
              [date |-> SeriesDay(order, n, i) * TicksPerDay + (i % TicksPerDay),
               ridership |-> SeriesValue(k, c, hole, i)]])

\* a caller merges a ridership series with the weather of its days
CallTransformAndMergeSeries ==
    /\ t_pc = "idle"
    /\ \E order \in SeriesOrders, n \in 1..MaxSeriesRows, k \in 1..3, c \in 0..2,
          hole \in BOOLEAN :
          LET r == SeriesTable(order, n, k, c, hole)
              w == Reshape(<<Daily(n, 1)>>)
              tm == TransformAndMerge(quality_metrics, r, w)
          IN  /\ quality_metrics' = tm.metrics
              /\ t_call' = [op |-> "transform_and_merge", ridership_df |-> r,
                            weather_df |-> w]
              /\ t_out' = [kind |-> tm.kind, table |-> tm.result.table,
                           err |-> tm.err, derived |-> tm.result.derived,
                           cleaned |-> tm.cleaned]
    /\ t_pc' = "done"
    /\ UNCHANGED <<extract_vars, driver_vars>>

SeriesNext == CallTransformAndMergeSeries

SpecSeries == Init /\ [][SeriesNext]_vars

\* the ridership values that are not missing among the rows lo..hi, as
\* their sum and their number
RECURSIVE Observed(_, _, _)
Observed(rows, lo, hi) ==
    IF hi < lo THEN [sum |-> 0, count |-> 0]
    ELSE LET rest == Observed(rows, lo, hi - 1)
         IN  IF IsNull(rows[hi].ridership) THEN rest
             ELSE [sum |-> rest.sum + rows[hi].ridership, count |-> rest.count + 1]

\* C18: the table transform_and_merge returns is in ascending date order
\* whatever the order of the input rows, and at its i-th row
\* ridership_7day_avg is the mean of ridership over the rows max(1, i-6)..i
\* and ridership_30day_avg the mean over the rows max(1, i-29)..i (a mean
\* being that of the values present, held as their sum and their number):
\* at the first row that row's own value, at the 10th row the mean of the
\* rows 4 to 10.
ThmC18_RollingOverRows ==
    (Merged /\ t_out.derived /\ "ridership" \in t_out.table.cols) =>
        LET M == t_out.table.rows
        IN  /\ \A i, j \in 1..Len(M) : i < j => M[i].date <= M[j].date
            /\ \A i \in 1..Len(M) :
                  /\ M[i].ridership_7day_avg =
                        Observed(M, IF i - 6 > 1 THEN i - 6 ELSE 1, i)
                  /\ M[i].ridership_30day_avg =
                        Observed(M, IF i - 29 > 1 THEN i - 29 ELSE 1, i)
            /\ ~IsNull(M[1].ridership) =>
                  M[1].ridership_7day_avg = [sum |-> M[1].ridership, count |-> 1]
            /\ Len(M) >= 10 => M[10].ridership_7day_avg = Observed(M, 4, 10)

\* ten ridership rows given newest first came back oldest first, the 7-row
\* average of the 10th being that of the rows 4 to 10 and not that of all
WitC18_TenthRowOverSeven ==
    /\ Merged
    /\ t_out.derived
    /\ Len(t_out.table.rows) = 10
    /\ Len(t_call.ridership_df.rows) = 10
    /\ t_call.ridership_df.rows[1].date > t_call.ridership_df.rows[10].date
    /\ t_out.table.rows[1].date < t_out.table.rows[10].date
    /\ t_out.table.rows[10].ridership_7day_avg.count = 7
    /\ t_out.table.rows[10].ridership_7day_avg = Observed(t_out.table.rows, 4, 10)
    /\ t_out.table.rows[10].ridership_7day_avg # t_out.table.rows[10].ridership_30day_avg

\* ------------------------------------------------------------------------
\* Further properties of the extractor (checked under SpecExtract)
\* ------------------------------------------------------------------------
\* the number of failed calls of func so far
Failures == Cardinality({i \in 1..Len(invocations) : invocations[i].err # ""})

\* C19: fetch_with_retry backs off linearly.  The pauses it has taken are
\* delay, 2 * delay, 3 * delay, ... in this order, one after each failed
\* attempt that was not the last allowed one (the attempt of 0-based index k
\* is followed by a pause of delay * (k + 1)), and none after a successful
\* attempt or after the final failed attempt.
ThmC19_LinearBackoff ==
    fwr_pc # "idle" =>
        /\ \A i \in 1..Len(sleeps) : sleeps[i] = delay * i
        /\ fwr_pc \in {"loop", "returned"} => Len(sleeps) = Failures
        /\ fwr_pc = "raised" =>
              /\ Failures = max_retries
              /\ Len(sleeps) = max_retries - 1

\* with delay 2 the first two attempts failed and the third succeeded: the
\* pauses were 2 and 4
WitC19_TwoThenFour ==
    /\ op = "fwr"
    /\ arg_delay = 2
    /\ fwr_pc = "returned"
    /\ Len(invocations) = 3
    /\ invocations[3].err = ""
    /\ sleeps = <<2, 4>>

\* line 84: the $where predicate of the window lo_day..hi_day, for a
\* record stamped `tick`:
\*   transit_timestamp >= '<lo day>T00:00:00'
\*     AND transit_timestamp < '<hi day>T23:59:59'
Where(tick, lo_day, hi_day) ==
    /\ tick >= lo_day * TicksPerDay
    /\ tick < hi_day * TicksPerDay + (TicksPerDay - 1)

\* the windows requested so far that hold the day `day`
WindowsHolding(day) ==
    {k \in 1..Len(windows) : windows[k].offset <= day /\ day <= windows[k].week_end}

OrigC21_LimitProportional ==
    InRidership =>
        \A k \in 1..Len(windows) :
            /\ 7 * max_records - days < days * windows[k].limit
            /\ days * windows[k].limit < 7 * max_records + days

\* C21 as amended: each window request asks for up to
\* (max_records // total_days) * 7 rows, the quotient being rounded down to
\* a whole number before it is multiplied (so never more than max_records /
\* total_days * 7, and 0 when max_records < total_days); the limit is the
\* same for every window, a shorter final window included, and no answer
\* holds more rows than it.
ThmC21_LimitFloored ==
    InRidership =>
        \A k \in 1..Len(windows) :
            /\ windows[k].limit = 7 * (max_records \div days)
            /\ days * windows[k].limit <= 7 * max_records
            /\ max_records < days => windows[k].limit = 0
            /\ windows[k].limit = windows[1].limit
            /\ Len(windows[k].batch) <= windows[k].limit

\* 16 records over 9 days: both windows, the second of two days, asked for
\* up to 7 rows, where 16 / 9 * 7 is above 12
WitC21_SixteenOverNine ==
    /\ op = "ridership_post"
    /\ days = 9
    /\ max_records = 16
    /\ Len(windows) = 2
    /\ windows[2].week_end - windows[2].offset = 1
    /\ windows[1].limit = 7
    /\ windows[2].limit = 7

\* ------------------------------------------------------------------------
\* Further properties of the validator (checked under SpecTransform)
\* ------------------------------------------------------------------------
\* the positions of the input rows that are to stay: the date present, and
\* no earlier row equal in every column
Staying(rows) ==
    {i \in 1..Len(rows) :
        /\ ~IsNull(rows[i].date)
        /\ \A j \in 1..(i - 1) : rows[j] # rows[i]}

\* C22: for a non-empty table with a date column, validate_data_quality
\* returns the input without the rows whose date is missing and without
\* every later row equal in all columns to an earlier one, the first
\* occurrence kept and the order of the rows kept; nothing else goes or
\* changes, so a row with a missing value in another column only, or with
\* the smallest or largest value of a column, stays.
ThmC22_OnlyNullDatesAndDuplicatesGo ==
    (Validated /\ ~IsEmpty(t_call.df) /\ "date" \in t_call.df.cols) =>
        LET I == t_call.df.rows
            R == t_out.table.rows
        IN  /\ t_out.kind = "returned"
            /\ t_out.table.cols = t_call.df.cols
            /\ Len(R) = Cardinality(Staying(I))
            /\ \A i \in Staying(I) :
                  R[Cardinality({j \in Staying(I) : j <= i})] = I[i]
            /\ \A i \in 1..Len(I) :
                  ~IsNull(I[i].date) => \E n \in 1..Len(R) : R[n] = I[i]

\* of three ridership rows, one without a date and two equal ones without a
\* count, one row without a count came back
WitC22_RowWithoutCountStays ==
    /\ Validated
    /\ "ridership" \in t_call.df.cols
    /\ Len(t_call.df.rows) = 3
    /\ IsNull(t_call.df.rows[1].date)
    /\ t_call.df.rows[2] = t_call.df.rows[3]
    /\ Len(t_out.table.rows) = 1
    /\ IsNull(t_out.table.rows[1].ridership)
    /\ ~IsNull(t_out.table.rows[1].date)

\* ------------------------------------------------------------------------
\* Further properties of add_derived_features (checked under SpecFeatures)
\* ------------------------------------------------------------------------
\* C23: add_derived_features skips steps gracefully.  For a table with a
\* date column and any subset of the raw weather columns temperature_mean,
\* precipitation, windspeed it returns a table that keeps the columns it was
\* given and has temperature_f and temp_category exactly when
\* temperature_mean is there, precipitation_in, rain_category and is_rainy
\* exactly when precipitation is there, windspeed_mph exactly when windspeed
\* is there, and weather_impact_score and weather_condition exactly when all
\* three are there; every row holds a value for every column of the table.
ThmC23_DerivedColumnsFollowSources ==
    (DerivedOnce /\ "date" \in t_call.df.cols
       /\ t_call.df.cols \subseteq {"date"} \cup RawWeatherColumns) =>
        LET given == t_call.df.cols
            got == t_out.table.cols
        IN  /\ t_out.kind = "returned"
            /\ given \subseteq got
            /\ "temperature_f" \in got <=> "temperature_mean" \in given
            /\ "temp_category" \in got <=> "temperature_mean" \in given
            /\ "precipitation_in" \in got <=> "precipitation" \in given
            /\ "rain_category" \in got <=> "precipitation" \in given
            /\ "is_rainy" \in got <=> "precipitation" \in given
            /\ "windspeed_mph" \in got <=> "windspeed" \in given
            /\ "weather_impact_score" \in got <=> RawWeatherColumns \subseteq given
            /\ "weather_condition" \in got <=> RawWeatherColumns \subseteq given
            /\ Len(t_out.table.rows) = Len(t_call.df.rows)
            /\ \A i \in 1..Len(t_out.table.rows) : DOMAIN t_out.table.rows[i] = got

\* a table with temperature_mean and windspeed but no precipitation came
\* back with temperature_f, temp_category and windspeed_mph, and without a
\* score
WitC23_NoPrecipitationNoScore ==
    /\ DerivedOnce
    /\ t_call.df.cols = {"date", "temperature_mean", "windspeed"}
    /\ Len(t_out.table.rows) = 1
    /\ {"temperature_f", "temp_category", "windspeed_mph"} \subseteq t_out.table.cols
    /\ "weather_impact_score" \notin t_out.table.cols
    /\ "precipitation_in" \notin DOMAIN t_out.table.rows[1]
    /\ "weather_impact_score" \notin DOMAIN t_out.table.rows[1]

\* ------------------------------------------------------------------------
\* Rolling averages against calendar days (checked under SpecSeries)
\* ------------------------------------------------------------------------
\* the ridership values that are not missing among the rows 1..n dated on
\* the calendar days from..to, as their sum and their number
RECURSIVE ObservedOnDays(_, _, _, _)
ObservedOnDays(rows, n, from, to) ==
    IF n = 0 THEN [sum |-> 0, count |-> 0]
    ELSE LET rest == ObservedOnDays(rows, n - 1, from, to)
             day == ToDate(rows[n].date)
         IN  IF day < from \/ day > to \/ IsNull(rows[n].ridership) THEN rest
             ELSE [sum |-> rest.sum + rows[n].ridership, count |-> rest.count + 1]

\* C24: at every row of the merged table ridership_7day_avg is the mean of
\* ridership over the merged rows dated within the 7 calendar days ending at
\* that row's date, and ridership_30day_avg the mean over those dated within
\* the 30 calendar days ending at it, also when rows share a date.
OrigC24_RollingOverCalendarDays ==
    (Merged /\ t_out.derived /\ "ridership" \in t_out.table.cols) =>
        LET M == t_out.table.rows
        IN  \A i \in 1..Len(M) :
                LET day == ToDate(M[i].date)
                IN  /\ M[i].ridership_7day_avg =
                          ObservedOnDays(M, Len(M), day - 6, day)
                    /\ M[i].ridership_30day_avg =
                          ObservedOnDays(M, Len(M), day - 29, day)

\* C24, for the merged tables that hold one row for each of a run of
\* consecutive days
AuxC24_OneRowPerConsecutiveDay ==
    (Merged /\ t_out.derived /\ "ridership" \in t_out.table.cols) =>
        LET M == t_out.table.rows
        IN  (\A i \in 1..Len(M) : ToDate(M[i].date) = ToDate(M[1].date) + i - 1) =>
                \A i \in 1..Len(M) :
                    LET day == ToDate(M[i].date)
                    IN  /\ M[i].ridership_7day_avg =
                              ObservedOnDays(M, Len(M), day - 6, day)
                        /\ M[i].ridership_30day_avg =
                              ObservedOnDays(M, Len(M), day - 29, day)

\* ------------------------------------------------------------------------
\* Arithmetic of the stored reports (checked under SpecTransform)
\* ------------------------------------------------------------------------
\* report[key], an absent key counting as 0
CountOf(report, key) == IF key \in DOMAIN report THEN report[key] ELSE 0

\* C25: in every report validate_data_quality has stored for a table that
\* was not empty, final_rows + rows_removed = initial_rows, rows_removed =
\* rows_removed_nulls + duplicates_removed (an absent key counting as 0),
\* final_rows <= initial_rows and 0 <= quality_score <= 100 (held in
\* hundredths); the report of the last call counts the rows of the table
\* that call was given and of the table it returned.
ThmC25_ReportArithmetic ==
    /\ \A n \in DOMAIN quality_metrics :
          LET report == quality_metrics[n]
          IN  report.status # "FAILED - Empty dataset" =>
                /\ {"final_rows", "rows_removed", "quality_score"} \subseteq DOMAIN report
                /\ report.final_rows + report.rows_removed = report.initial_rows
                /\ report.rows_removed = CountOf(report, "rows_removed_nulls")
                                           + CountOf(report, "duplicates_removed")
                /\ 0 <= report.final_rows
                /\ report.final_rows <= report.initial_rows
                /\ 0 <= report.quality_score
                /\ report.quality_score <= 10000
    /\ (Validated /\ t_out.kind = "returned" /\ ~IsEmpty(t_call.df)) =>
          /\ quality_metrics[t_call.name].initial_rows = Len(t_call.df.rows)
          /\ quality_metrics[t_call.name].final_rows = Len(t_out.table.rows)

\* of three rows one went for its missing date and one as a duplicate: the
\* report says 3 = 1 + 2 and 2 = 1 + 1
WitC25_OneNullOneDuplicate ==
    /\ Validated
    /\ t_out.kind = "returned"
    /\ Len(t_call.df.rows) = 3
    /\ t_call.name \in DOMAIN quality_metrics
    /\ LET report == quality_metrics[t_call.name]
       IN  /\ report.initial_rows = 3
           /\ report.final_rows = 1
           /\ report.rows_removed = 2
           /\ CountOf(report, "rows_removed_nulls") = 1
           /\ CountOf(report, "duplicates_removed") = 1
           /\ report.quality_score = 3333

\* ------------------------------------------------------------------------
\* The timestamp predicates of the windows (checked under SpecExtract)
\* ------------------------------------------------------------------------
\* the windows requested so far whose predicate a record stamped `tick`
\* matches
WindowsMatching(tick) ==
    {k \in 1..Len(windows) : Where(tick, windows[k].offset, windows[k].week_end)}

\* the instants of the days of the range, 00:00:00 to 23:59:59
RangeTicks == 0..(days * TicksPerDay - 1)

\* C26: the timestamp predicates of the weekly windows tile the requested
\* range.  Once every window is requested, a record stamped at any time of
\* any day of [start_date, end_date] matches the predicate of exactly one
\* window.
OrigC26_PredicatesTile ==
    op = "ridership_post" =>
        \A tick \in RangeTicks : Cardinality(WindowsMatching(tick)) = 1

\* C26, for what does hold: no instant matches two predicates, and every
\* instant matches one except 23:59:59 of the last day of each window,
\* which matches none
AuxC26_AllButLastSecond ==
    InRidership =>
        /\ \A tick \in RangeTicks : Cardinality(WindowsMatching(tick)) <= 1
        /\ \A k \in 1..Len(windows) :
              LET last == windows[k].week_end * TicksPerDay + (TicksPerDay - 1)
              IN  /\ WindowsMatching(last) = {}
                  /\ \A tick \in (windows[k].offset * TicksPerDay)..(last - 1) :
                        WindowsMatching(tick) = {k}
        /\ \A k \in 1..Len(windows) : \A i \in 1..Len(windows[k].batch) :
              k \in WindowsMatching(ToDatetime(windows[k].batch[i].transit_timestamp))

\* ------------------------------------------------------------------------
\* Reuse of the cache file by load_data (checked under SpecApp)
\* ------------------------------------------------------------------------
\* the converted columns load_data looks for
ConvertedColumns == {"temperature_f", "precipitation_in"}

\* the run of load_data under way, or the last one, found a cache file
\* holding both converted columns
FoundConverted == ld.found.exists /\ ConvertedColumns \subseteq ld.found.table.cols

\* C27: load_data reuses the cache file without any extraction call only
\* when the file holds both temperature_f and precipitation_in.  Over any
\* sequence of runs, a table returned without an extraction call holds both
\* converted columns (it is the table of the cache file, which is left in
\* place); a run that found a cache file holding both makes no extraction
\* call and does not transform; and a run that found no such file does not
\* get past the extraction calls without making them.
ThmC27_CacheReusedOnlyWhenConverted ==
    ld_pc # "idle" =>
        /\ (ld_pc = "returned" /\ ld.extractions = 0) =>
              /\ ConvertedColumns \subseteq ld_out.table.cols
              /\ FoundConverted
              /\ ld_out.table = ld.found.table
              /\ cache_file = ld.found
        /\ FoundConverted =>
              /\ ld.extractions = 0
              /\ ~ld.removed
              /\ ~ld.transformed
              /\ ld_pc \in {"precompute", "returned", "raised"}
        /\ ~FoundConverted =>
              /\ ld.removed = ld.found.exists
              /\ ld_pc = "fetch_ridership" => ld.extractions = 0
              /\ ld_pc = "fetch_weather" => ld.extractions = 1
              /\ ld_pc \in {"transform", "precompute", "returned"} =>
                    ld.extractions = 2
              /\ ld_pc = "raised" => ld.extractions = 2

\* a run returned, without an extraction call, the table an earlier run had
\* merged and written to the cache file
WitC27_SecondRunReusesFirst ==
    /\ ld_pc = "returned"
    /\ ld.extractions = 0
    /\ ld.found.exists
    /\ ld.found.table \notin CacheMenu
    /\ ConvertedColumns \subseteq ld_out.table.cols
    /\ cache_file.table = ld_out.table

\* ------------------------------------------------------------------------
\* The metrics of repeated runs (checked under SpecPipeline)
\* ------------------------------------------------------------------------
\* C28: over any sequence of run() calls on one ETLPipeline object, a run
\* that returns SUCCESS leaves pipeline_metrics with status SUCCESS and an
\* empty errors list, also after an earlier call on the object ended FAILED;
\* and whenever a call has returned, the status in pipeline_metrics is the
\* status returned, SUCCESS or FAILED and never RUNNING.
OrigC28_SuccessHasNoErrors ==
    run_pc = "returned" =>
        /\ run_out.status \in {"SUCCESS", "FAILED"}
        /\ pipeline_metrics.status = run_out.status
        /\ run_out.status = "SUCCESS" => pipeline_metrics.errors = <<>>

\* C28, for what does hold: the status in pipeline_metrics is the status
\* returned, a FAILED run leaves exactly its own error in the errors list,
\* and the list never holds more than one error
AuxC28_StatusFollowsReturn ==
    /\ Len(pipeline_metrics.errors) <= 1
    /\ run_pc = "returned" =>
          /\ run_out.status \in {"SUCCESS", "FAILED"}
          /\ pipeline_metrics.status = run_out.status
          /\ run_out.status = "FAILED" => pipeline_metrics.errors = <<run_out.error>>
          /\ run_out.status = "SUCCESS" =>
                pipeline_metrics.records_processed = Len(run_out.data.rows)
    /\ run_pc \notin {"idle", "returned"} => pipeline_metrics.status = "RUNNING"

\* ------------------------------------------------------------------------
\* Failures in the loading phase (checked under SpecPipeline)
\* ------------------------------------------------------------------------
\* the loading action `action` was executed and succeeded
Succeeded(action) ==
    \E i \in 1..Len(loaded) : loaded[i].action = action /\ loaded[i].ok

\* the loading action `action` was executed and failed
Failed(action) ==
    \E i \in 1..Len(loaded) : loaded[i].action = action /\ ~loaded[i].ok

\* the run has returned after both CSV saves of the loading phase succeeded
SavedLocally ==
    /\ run_pc = "returned"
    /\ Succeeded("save_to_csv")
    /\ Succeeded("save_to_csv summary")

\* C29: once extraction and merge produced non-empty tables and the two
\* local CSV saves succeeded, a failure of the S3 upload or of the database
\* load does not make the run FAILED: the run returns SUCCESS, with
\* database_success false when the database load failed, and a failed
\* database load has written a backup CSV of the table.
OrigC29_UploadFailuresNotFatal ==
    SavedLocally =>
        /\ run_out.status = "SUCCESS"
        /\ pipeline_metrics.status = "SUCCESS"
        /\ Failed("load_to_postgres") =>
              /\ ~pipeline_metrics.loading.database_success
              /\ Succeeded("save_to_csv backup")

\* C29, for what does hold: a failed S3 upload never makes the run FAILED,
\* and a failed database load does not when its backup CSV could be
\* written; the run is FAILED exactly when the database load failed and the
\* backup save failed too
AuxC29_FatalOnlyWhenBackupFails ==
    SavedLocally =>
        /\ run_out.status = "FAILED" <=>
              (Failed("load_to_postgres") /\ Failed("save_to_csv backup"))
        /\ run_out.status = "SUCCESS" =>
              /\ pipeline_metrics.loading.database_success
                    <=> Succeeded("load_to_postgres")
              /\ Failed("load_to_postgres") => Succeeded("save_to_csv backup")
        /\ Failed("load_to_postgres") => run.save_to_db

\* ------------------------------------------------------------------------
\* Falsy arguments of fetch_with_retry (checked under SpecExtract)
\* ------------------------------------------------------------------------
\* C30: fetch_with_retry treats a falsy max_retries or delay as not given.
\* Called with max_retries=0 it uses the default ceiling 3: it calls func,
\* at most 3 times, and raises only after 3 failed calls.  Called with
\* delay=0 it uses the default base delay 2: the pauses between attempts
\* are 2, 4, ...  An argument that is not 0 is used as given.
ThmC30_FalsyArgumentsDefault ==
    op = "fwr" =>
        /\ arg_retries = 0 =>
              /\ max_retries = DefaultMaxRetries
              /\ Len(invocations) <= DefaultMaxRetries
              /\ fwr_pc \in {"returned", "raised"} => Len(invocations) >= 1
              /\ fwr_pc = "returned" => invocations[Len(invocations)].err = ""
              /\ fwr_pc = "raised" =>
                    /\ Len(invocations) = DefaultMaxRetries
                    /\ AllFailed(invocations)
        /\ arg_delay = 0 =>
              /\ delay = DefaultRetryDelay
              /\ \A k \in 1..Len(sleeps) : sleeps[k] = DefaultRetryDelay * k
        /\ arg_retries # 0 => max_retries = arg_retries
        /\ arg_delay # 0 => delay = arg_delay

\* fetch_with_retry(func, max_retries=0, delay=0) called func three times,
\* pausing 2 and 4 in between, and raised
WitC30_ZeroZeroThreeCalls ==
    /\ op = "fwr"
    /\ arg_retries = 0
    /\ arg_delay = 0
    /\ fwr_pc = "raised"
    /\ Len(invocations) = 3
    /\ sleeps = <<2, 4>>

==========================================================================
